---- MODULE Spec2Model ----
(***************************************************************************)
(* Model of python-tinylink: the frame codec and the byte-level            *)
(* synchronisation state machine of tinylink/link.py (BaseTinyLink), the   *)
(* blocking / asynchronous link facades (TinyLink, AsyncTinyLink) and the  *)
(* in-memory handle the test-suite drives them with (DummyHandle).         *)
(*                                                                         *)
(* Bytes are integers 0..255 and byte strings are sequences of bytes.      *)
(* Python's unbounded integers hold the 32-bit preamble and CRC; here a    *)
(* 32-bit word is the record [hi |-> upper 16 bits, lo |-> lower 16 bits]. *)
(***************************************************************************)
EXTENDS Integers, Sequences, FiniteSets, TLC

(***************************************************************************)
(* Bounds of the model.                                                    *)
(***************************************************************************)
MaxMpl == 3        \* links are built with max_payload_length 0, 1 or MaxMpl
MaxWideLen == 2    \* payload lengths of the frames tried on the codec alone
MaxWrites == 2     \* write_frame calls in one run
MaxFewWrites == 1  \* write_frame calls in one run over a lagging transport
MaxFiller == 9     \* plain bytes written straight to the handle before anything else
MaxGarbage == 3    \* reserved bytes written straight to the handle after them
MaxDamage == 1     \* wire bytes overwritten in flight in one run
MaxBeyond == 20    \* how far from 0 and from 65535 the flags tried go
MaxData == 5       \* bytes in a sequence handed to _escape on its own
MaxBurst == 3      \* write_frame calls made in a row before anything is read
MaxTasks == 3      \* write_frame tasks running on one link at a time

(***************************************************************************)
(* consts.py                                                               *)
(***************************************************************************)
PREAMBLE == [hi |-> 43605, lo |-> 43605]     \* 0xAA55AA55
LITTLE_ENDIAN == "<"
BIG_ENDIAN == ">"
WAITING_FOR_PREAMBLE == 1
WAITING_FOR_HEADER == 2
WAITING_FOR_BODY == 3
LEN_PREAMBLE == 4
LEN_FLAGS == 2
LEN_LENGTH == 2
LEN_XOR == 1
LEN_CRC == 4
LEN_HEADER == LEN_FLAGS + LEN_LENGTH + LEN_XOR
LEN_BODY == LEN_CRC
\* The marker and the escape byte that link.py reads from consts.
FLAG == 170      \* 0xAA
ESCAPE == 27     \* 0x1B

(***************************************************************************)
(* utils.py                                                                *)
(***************************************************************************)
CRC32_POLYNOMIAL == [hi |-> 60856, lo |-> 33568]   \* 0xEDB88320
CRC32_INITIAL == [hi |-> 0, lo |-> 0]              \* 0x00000000

\* a ^ b on non-negative integers (Python's ^), bit by bit.
RECURSIVE BitXorBits(_, _)
BitXorBits(a, b) ==
    IF a = 0 THEN b
    ELSE IF b = 0 THEN a
    ELSE ((a + b) % 2) + 2 * BitXorBits(a \div 2, b \div 2)

\* a ^ b.  (Binding the operands in a set only makes the evaluator compute
\* each of them once.)
BitXor(a, b) == CHOOSE r \in {BitXorBits(x, y) : x \in {a}, y \in {b}} : TRUE

\* a ^ b on 32-bit words.
WordXor(v, w) == [hi |-> BitXor(v.hi, w.hi), lo |-> BitXor(v.lo, w.lo)]

\* w >> 1 and w >> 8 on 32-bit words.
WordShr1(w) == [hi |-> w.hi \div 2, lo |-> (w.hi % 2) * 32768 + (w.lo \div 2)]
WordShr8(w) == [hi |-> w.hi \div 256, lo |-> (w.hi % 256) * 256 + (w.lo \div 256)]

\* The inner loop of crc32_value: n rounds of shift / conditional xor.
RECURSIVE CrcRounds(_, _)
CrcRounds(crc, n) ==
    IF n = 0 THEN crc
    ELSE CrcRounds(IF crc.lo % 2 = 1
                   THEN WordXor(WordShr1(crc), CRC32_POLYNOMIAL)
                   ELSE WordShr1(crc), n - 1)

\* The eight rounds applied to each value of (result ^ c) & 0xFF, computed once.
CrcLoop == [crc \in 0..255 |-> CrcRounds([hi |-> 0, lo |-> crc], 8)]

\* crc32_value(c) with the enclosing `result` made explicit.
crc32_value(result, c) ==
    LET temp == WordShr8(result)
        crc == BitXor(result.lo % 256, c)
    IN WordXor(temp, CrcLoop[crc])

\* crc32(buf): fold crc32_value over the bytes of buf.  (Binding `next` in a
\* set only makes the evaluator compute each step before it takes the next
\* one.)
RECURSIVE Crc32From(_, _, _)
Crc32From(result, buf, i) ==
    IF i > Len(buf) THEN result
    ELSE CHOOSE out \in {Crc32From(next, buf, i + 1) :
                             next \in {crc32_value(result, buf[i])}} : TRUE

crc32(buf) == Crc32From(CRC32_INITIAL, buf, 1)

(***************************************************************************)
(* struct.pack / struct.unpack_from for the formats link.py uses, and      *)
(* Python slicing.  Sequences are 1-based: buffer position i is buf[i+1].  *)
(***************************************************************************)
Slice(buf, i, j) == SubSeq(buf, i + 1, j)            \* buf[i:j], 0 <= i <= j

PackH(e, v) ==
    IF e = LITTLE_ENDIAN THEN <<v % 256, v \div 256>> ELSE <<v \div 256, v % 256>>

PackI(e, w) ==
    IF e = LITTLE_ENDIAN
    THEN <<w.lo % 256, w.lo \div 256, w.hi % 256, w.hi \div 256>>
    ELSE <<w.hi \div 256, w.hi % 256, w.lo \div 256, w.lo % 256>>

UnpackH(e, b) ==
    IF e = LITTLE_ENDIAN THEN b[1] + 256 * b[2] ELSE 256 * b[1] + b[2]

UnpackI(e, b) ==
    IF e = LITTLE_ENDIAN
    THEN [hi |-> b[3] + 256 * b[4], lo |-> b[1] + 256 * b[2]]
    ELSE [hi |-> 256 * b[1] + b[2], lo |-> 256 * b[3] + b[4]]

\* unpack_from(endianness + "HHB", buffer)
UnpackHeader(e, buf) ==
    [flags |-> UnpackH(e, Slice(buf, 0, 2)),
     length |-> UnpackH(e, Slice(buf, 2, 4)),
     checksum_header |-> buf[5]]

(***************************************************************************)
(* link.py: Frame.  An Optional value is a sequence of length 0 (None) or  *)
(* 1 (the value).                                                          *)
(***************************************************************************)
None == <<>>
Some(v) == <<v>>

\* `flags & 0xFFFF` on a Python integer of any size and sign: the low 16
\* bits of its two's complement.
Low16(flags) == flags % 65536

\* A faulty check, one whose mask is a bit too wide.
FrameInitRaisesWideMask(flags) == flags % 131072 # flags

\* Frame.__init__: `if flags & 0xFFFF != flags: raise ValueError`.
FrameInitRaises(flags) == Low16(flags) # flags
Frame(flags, payload) == [flags |-> flags, payload |-> payload]

\* `frame.payload or bytes()`
PayloadOrBytes(payload) == IF payload = None THEN <<>> ELSE payload[1]

(***************************************************************************)
(* link.py: BaseTinyLink, the pure parts.                                  *)
(***************************************************************************)
_checksum_header(flags, length) ==
    LET a == flags % 256
        b == (flags \div 256) % 256
        c == length % 256
        d == (length \div 256) % 256
    IN BitXor(BitXor(BitXor(a, b), c), d)

_checksum_frame(header, payload) == crc32(header \o payload)

\* A faulty _escape, one that leaves the escape byte itself alone.
RECURSIVE EscapeFlagOnlyFrom(_, _)
EscapeFlagOnlyFrom(data, i) ==
    IF i > Len(data) THEN <<>>
    ELSE (IF data[i] = FLAG THEN <<ESCAPE, FLAG>> ELSE <<data[i]>>)
         \o EscapeFlagOnlyFrom(data, i + 1)
EscapeFlagOnly(data) == EscapeFlagOnlyFrom(data, 1)

\* A faulty _escape, one that leaves the marker byte alone.
RECURSIVE EscapeEscapeOnlyFrom(_, _)
EscapeEscapeOnlyFrom(data, i) ==
    IF i > Len(data) THEN <<>>
    ELSE (IF data[i] = ESCAPE THEN <<ESCAPE, ESCAPE>> ELSE <<data[i]>>)
         \o EscapeEscapeOnlyFrom(data, i + 1)
EscapeEscapeOnly(data) == EscapeEscapeOnlyFrom(data, 1)

RECURSIVE EscapeFrom(_, _)
EscapeFrom(data, i) ==
    IF i > Len(data) THEN <<>>
    ELSE (IF data[i] = FLAG THEN <<ESCAPE, FLAG>>
          ELSE IF data[i] = ESCAPE THEN <<ESCAPE, ESCAPE>>
          ELSE <<data[i]>>) \o EscapeFrom(data, i + 1)

_escape(data) == EscapeFrom(data, 1)

\* A faulty buffer size, one that leaves no room for the CRC.
BufferSizeNoBody(mpl) == mpl + LEN_HEADER

\* BaseTinyLink.__init__: the fields of a new link.
BufferSize(mpl) == mpl + LEN_HEADER + LEN_BODY
NewLink(e, mpl) ==
    [endianness |-> e,
     max_payload_length |-> mpl,
     state |-> WAITING_FOR_PREAMBLE,
     buffer |-> [i \in 1..BufferSize(mpl) |-> 0],
     index |-> 0,
     unescaping |-> FALSE]

\* A faulty length check, one that lets one byte too many through.
LengthExceededByTwo(self, length) == length > self.max_payload_length + 1

\* `if length > self.max_payload_length: raise ValueError(...)`
LengthExceeded(self, length) == length > self.max_payload_length

\* _write_frame(frame): the bytes for the handle, or the exception raised.
_write_frame(self, frame) ==
    LET flags == frame.flags
        payload == PayloadOrBytes(frame.payload)
        length == Len(payload)
    IN IF LengthExceeded(self, length)
       THEN [error |-> "ValueError", bytes |-> <<>>]
       ELSE IF length > 65535 \/ flags > 65535
       THEN [error |-> "struct.error", bytes |-> <<>>]
       ELSE LET preamble == PackI(self.endianness, PREAMBLE)
                checksum_header == _checksum_header(flags, length)
                header == PackH(self.endianness, flags)
                          \o PackH(self.endianness, length)
                          \o <<checksum_header>>
                checksum_frame == _checksum_frame(header, payload)
                body == payload \o PackI(self.endianness, checksum_frame)
            IN [error |-> "", bytes |-> preamble \o _escape(header \o body)]

\* self.buffer[i] = b for a Python index i (negative counts from the end).
StoreRaises(buf, i) == i >= Len(buf) \/ i < -Len(buf)
Store(buf, i, b) ==
    [buf EXCEPT ![IF i >= 0 THEN i + 1 ELSE Len(buf) + i + 1] = b]

\* The decisions of _read_byte and its slide.
\* `preamble == consts.PREAMBLE`, on the four bytes before the index.
PreambleFound(e, buf, i) == UnpackI(e, Slice(buf, i - 4, i)) = PREAMBLE

\* A faulty slide, one that leaves the front of the buffer as it is.
SlideNothing(buf) == buf

\* A faulty slide, one that copies the four bytes before the last.
SlideOffByOne(buf) == Slice(buf, Len(buf) - 5, Len(buf) - 1) \o Slice(buf, 4, Len(buf))

\* `self.buffer[0:4] = self.buffer[-4:]`
Slide(buf) == Slice(buf, Len(buf) - 4, Len(buf)) \o Slice(buf, 4, Len(buf))

\* A faulty header check, one that does not look at the checksum byte.
HeaderLengthOnly(self, header) == header.length <= self.max_payload_length

\* `checksum_header == self._checksum_header(flags, length)
\*  and length <= self.max_payload_length`
HeaderAccepted(self, header) ==
    /\ header.checksum_header = _checksum_header(header.flags, header.length)
    /\ header.length <= self.max_payload_length

\* A faulty frame check, one that looks at the low half of the CRC only.
FrameLowHalfOnly(checksum_frame, header, payload) ==
    checksum_frame.lo = _checksum_frame(header, payload).lo

\* `checksum_frame == self._checksum_frame(self.buffer[:LEN_HEADER], payload)`
FrameAccepted(checksum_frame, header, payload) ==
    checksum_frame = _checksum_frame(header, payload)

\* A faulty unescape, one that does not step back onto the escape marker.
UnescapedIndexStays(self) == self.index

\* `if self.unescaping: self.index = self.index - 1`, in a header or a body:
\* the index the byte is stored at.
UnescapedIndex(self) ==
    IF self.state \in {WAITING_FOR_HEADER, WAITING_FOR_BODY} /\ self.unescaping
    THEN self.index - 1 ELSE self.index

\* A faulty unescape, one that takes an escape byte for a marker in every state.
UnescapingAnywhere(self, byte) ==
    IF self.unescaping THEN FALSE ELSE byte = ESCAPE

\* A faulty unescape, one that takes the marker byte for an escape marker too.
UnescapingOnMarker(self, byte) ==
    IF self.state \in {WAITING_FOR_HEADER, WAITING_FOR_BODY}
    THEN (IF self.unescaping THEN FALSE ELSE byte \in {ESCAPE, FLAG})
    ELSE self.unescaping

\* `if self.unescaping: self.unescaping = False
\*  else: if byte[0] == consts.ESCAPE: self.unescaping = True`, in a header or
\* a body: the flag once the byte is stored.
Unescaping(self, byte) ==
    IF self.state \in {WAITING_FOR_HEADER, WAITING_FOR_BODY}
    THEN (IF self.unescaping THEN FALSE ELSE byte = ESCAPE)
    ELSE self.unescaping

\* _read_byte(byte) on the fields `self`: the fields afterwards, the value
\* returned (None or a Frame) and the exception raised, if any.
_read_byte(self, byte) ==
    LET e == self.endianness
        in_frame == self.state \in {WAITING_FOR_HEADER, WAITING_FOR_BODY}
        \* Unescape and append to buffer.
        index1 == UnescapedIndex(self)
        unescaping1 == Unescaping(self, byte)
        buffer1 == Store(self.buffer, index1, byte)
        index2 == index1 + 1
        stored == [self EXCEPT !.buffer = buffer1, !.index = index2,
                               !.unescaping = unescaping1]
        header == UnpackHeader(e, buffer1)
        flags == header.flags
        length == header.length
    IN IF StoreRaises(self.buffer, index1)
       THEN [self |-> [self EXCEPT !.index = index1, !.unescaping = unescaping1],
             result |-> None, error |-> "IndexError"]
       ELSE IF unescaping1
       THEN [self |-> stored, result |-> None, error |-> ""]
       ELSE IF self.state = WAITING_FOR_PREAMBLE
       THEN IF index2 >= LEN_PREAMBLE
            THEN IF PreambleFound(e, buffer1, index2)
                 THEN \* Preamble found. Start reading the header.
                      [self |-> [stored EXCEPT !.index = 0,
                                               !.state = WAITING_FOR_HEADER],
                       result |-> None, error |-> ""]
                 ELSE IF index2 = self.max_payload_length + LEN_HEADER + LEN_BODY
                 THEN \* Buffer is full: copy the last four bytes to the front.
                      [self |-> [stored EXCEPT
                                   !.buffer = Slide(buffer1),
                                   !.index = 4],
                       result |-> None, error |-> ""]
                 ELSE [self |-> stored, result |-> None, error |-> ""]
            ELSE [self |-> stored, result |-> None, error |-> ""]
       ELSE IF self.state = WAITING_FOR_HEADER
       THEN IF index2 = LEN_HEADER
            THEN IF HeaderAccepted(self, header)
                 THEN [self |-> [stored EXCEPT !.state = WAITING_FOR_BODY],
                       result |-> None, error |-> ""]
                 ELSE \* Reset to start state.
                      [self |-> [stored EXCEPT !.index = 0,
                                               !.state = WAITING_FOR_PREAMBLE],
                       result |-> None, error |-> ""]
            ELSE [self |-> stored, result |-> None, error |-> ""]
       ELSE \* WAITING_FOR_BODY
            IF index2 = length + LEN_HEADER + LEN_CRC
            THEN LET payload == Slice(buffer1, LEN_HEADER, LEN_HEADER + length)
                     checksum_frame ==
                         UnpackI(e, Slice(buffer1, LEN_HEADER + length,
                                          LEN_HEADER + length + 4))
                 IN [self |-> [stored EXCEPT !.index = 0,
                                             !.state = WAITING_FOR_PREAMBLE],
                     result |-> IF FrameAccepted(checksum_frame,
                                                 Slice(buffer1, 0, LEN_HEADER), payload)
                                THEN Some(Frame(flags, Some(payload)))
                                ELSE None,
                     error |-> ""]
            ELSE [self |-> stored, result |-> None, error |-> ""]

(***************************************************************************)
(* The state: one link (TinyLink / AsyncTinyLink over BaseTinyLink), the   *)
(* handle it reads from and writes to, and one read_frame caller.          *)
(***************************************************************************)
VARIABLES
    endianness,           \* BaseTinyLink.endianness
    max_payload_length,   \* BaseTinyLink.max_payload_length
    state,                \* BaseTinyLink.state
    buffer,               \* BaseTinyLink.buffer
    index,                \* BaseTinyLink.index
    unescaping,           \* BaseTinyLink.unescaping
    hbuf,                 \* handle: the bytes written to the transport
    hlength,              \* handle: how many of them the reading end can read
    hindex,               \* handle: how many of them have been read
    pc,                   \* "idle", or "reading" while a read_frame call is in flight
    ret,                  \* how the last read_frame call ended, and its value
    written,              \* history: the write_frame calls made: the frame, the error
                          \*   raised, the handle's length afterwards, how many
                          \*   frames had been returned, the reader inside a frame
    delivered,            \* history: frames returned by read_frame, with read offsets
    ref,                  \* history: a reader fed the same bytes in one unbroken call
    noise,                \* history: raw bytes and overwritten bytes put on the wire,
                          \*   bytes that went by before the link was attached
    broken,               \* history: how and where read_frame calls have ended
                          \*   inside a frame
    env,                  \* the run's transport: lagging or not, and what it may carry
    tasks                 \* the write_frame calls running as tasks on the link: the
                          \*   frame, where the task is, the handle.write calls it made

link_vars == <<state, buffer, index, unescaping>>
conf_vars == <<endianness, max_payload_length>>
handle_vars == <<hbuf, hlength, hindex>>
vars == <<endianness, max_payload_length, state, buffer, index, unescaping,
          hbuf, hlength, hindex, pc, ret, written, delivered, ref, noise, broken, env,
          tasks>>

\* The link's fields as one value, as the methods see them through `self`.
Self ==
    [endianness |-> endianness, max_payload_length |-> max_payload_length,
     state |-> state, buffer |-> buffer, index |-> index, unescaping |-> unescaping]

(***************************************************************************)
(* Inputs the operations are tried with.                                   *)
(***************************************************************************)
Endians == {LITTLE_ENDIAN, BIG_ENDIAN}
Mpls == {0, 1, MaxMpl}

\* Frames to write: no payload, an empty payload, flags and payloads that
\* hold the marker and the escape byte, a header checksum equal to the
\* marker (flags 170, length 0), a CRC that ends in the marker (flags 10,
\* little endian), the largest flags, payloads too long for each link, and
\* a frame (flags 3237, big endian) whose header checksum is the marker and
\* whose CRC, c, is such that the CRC of the header and the payload shifted
\* right by one marker byte is the payload's last byte and the first three
\* bytes of c.
RECURSIVE Fill(_, _)
Fill(b, n) == IF n = 0 THEN <<>> ELSE <<b>> \o Fill(b, n - 1)
TestFrames ==
    {Frame(0, None), Frame(10, None), Frame(170, Some(<<>>)),
     Frame(170, Some(<<27>>)), Frame(65535, Some(<<170>>)), Frame(123, Some(<<97>>)),
     Frame(3237, Some(<<204, 23, 23>>))}
    \cup {Frame(123, Some(<<97>> \o Fill(170, n - 1))) : n \in {2, MaxMpl + 1}}

\* Frames for the codec alone: flags whose bytes are zero, the marker, the
\* escape byte, the preamble's bytes or all ones, in either half, with no
\* payload and with every payload over {0, ESCAPE, FLAG} that fits a link.
WideFlags ==
    {0, 1, 10, 27, 85, 170, 255, 256, 6912, 6939, 21930, 43520, 43605, 43690, 65535}
RECURSIVE Payloads(_)
Payloads(n) ==
    IF n = 0 THEN {<<>>}
    ELSE Payloads(n - 1)
         \cup {Append(p, b) : p \in {q \in Payloads(n - 1) : Len(q) = n - 1},
                              b \in {0, ESCAPE, FLAG}}
WideFrames ==
    {Frame(flags, payload) :
        flags \in WideFlags, payload \in {None} \cup {Some(p) : p \in Payloads(MaxWideLen)}}

\* Frames for the runs in which read_frame is followed byte by byte: one
\* without payload that every link takes, one with an escaped payload, one
\* that no link takes.
FewFrames ==
    {Frame(10, None), Frame(170, Some(<<27>>)),
     Frame(123, Some(<<97>> \o Fill(170, MaxMpl)))}

\* The other end of the wire: a link of the same endianness whose
\* max_payload_length is larger than that of every link under test.
PeerMpl == MaxMpl + 1

\* Frames the peer sends: frames with payloads of one byte and of PeerMpl
\* bytes, frames that every link takes, and two frames (flags 9548 with one
\* payload byte, flags 51541 without payload) whose CRC ends in AA 55 on a
\* big-endian wire, the first half of the big-endian preamble.
PeerFrames ==
    {Frame(10, None), Frame(123, Some(<<97>>)), Frame(9548, Some(<<0>>)),
     Frame(51541, None), Frame(123, Some(<<97>> \o Fill(170, MaxMpl)))}

\* _write_frame for every configuration and frame tried, computed once.
\* Frames read byte by byte: escaped bytes in the header, at the end of the
\* header (flags 170, no payload), at the end of the CRC (flags 10,
\* little-endian) and all through a payload as long as the
\* link allows (test_escaping_max_payload_length), and both (flags 142 with
\* payload 1B, little-endian: the CRC ends in a reserved byte).
StepFrames ==
    {Frame(10, None), Frame(170, None), Frame(142, Some(<<27>>)),
     Frame(123, Some(<<97>>)), Frame(43690, Some(Fill(170, MaxMpl)))}

Encoded ==
    [e \in Endians |-> [mpl \in Mpls \cup {PeerMpl} |->
     [f \in TestFrames \cup WideFrames \cup PeerFrames \cup StepFrames |->
        _write_frame(NewLink(e, mpl), f)]]]

(***************************************************************************)
(* Start(e): a link as its constructor leaves it, over an empty handle, in *)
(* an environment e.                                                       *)
(***************************************************************************)
StartOf(e, mpls) ==
    /\ env = e
    /\ endianness \in Endians
    /\ max_payload_length \in mpls
    /\ state = WAITING_FOR_PREAMBLE
    /\ buffer = [i \in 1..BufferSize(max_payload_length) |-> 0]
    /\ index = 0
    /\ unescaping = FALSE
    /\ hbuf = <<>>
    /\ hlength = 0
    /\ hindex = 0
    /\ pc = "idle"
    /\ ret = [kind |-> "init", frame |-> None]
    /\ written = <<>>
    /\ delivered = <<>>
    /\ ref = [self |-> NewLink(endianness, max_payload_length), frames |-> <<>>]
    /\ noise = [filler |-> 0, garbage |-> 0, damage |-> <<>>, skipped |-> 0]
    /\ broken = {}
    /\ tasks = <<>>

Start(e) == StartOf(e, Mpls)

\* Spec: the link talks to itself through the handle, as in the tests.
Init ==
    Start([lag |-> FALSE, writes |-> MaxWrites, filler |-> 0, garbage |-> 0,
           damage |-> 0])

(***************************************************************************)
(* TinyLink.write_frame / AsyncTinyLink.write_frame:                       *)
(*     self.handle.write(self._write_frame(frame))                         *)
(* _write_frame reads only self.endianness and self.max_payload_length, so *)
(* its value is taken from Encoded.  sink_ok is whether the handle's write *)
(* succeeds; DummyHandle.write extends the buffer, and what it wrote is    *)
(* readable at once unless the transport lags.                             *)
(***************************************************************************)
\* The reader is past a preamble and has not finished the frame after it.
InFrame == state # WAITING_FOR_PREAMBLE

\* A read_frame call ended (how: "eof" or "cancelled") with the fields self.
Ended(how, self) == [how |-> how, unescaping |-> self.unescaping]

\* A faulty write_frame, one that starts the reader's buffer over.
WriteFrameRewinds(frame, sink_ok) ==
    LET w == Encoded[endianness][max_payload_length][frame]
        error == IF w.error # "" THEN w.error
                 ELSE IF ~sink_ok THEN "OSError" ELSE ""
    IN /\ Len(written) < env.writes
       /\ hbuf' = IF error = "" THEN hbuf \o w.bytes ELSE hbuf
       /\ hlength' = IF error = "" /\ ~env.lag THEN Len(hbuf') ELSE hlength
       /\ written' = Append(written,
                            [frame |-> frame, error |-> error, end |-> Len(hbuf'),
                             seen |-> Len(delivered), mid |-> InFrame])
       /\ index' = 0
       /\ UNCHANGED <<conf_vars, state, buffer, unescaping, hindex, pc, ret,
                      delivered, ref, noise, broken, env, tasks>>

WriteFrame(frame, sink_ok) ==
    LET w == IF max_payload_length \in DOMAIN Encoded[endianness]
             THEN Encoded[endianness][max_payload_length][frame]
             ELSE _write_frame(NewLink(endianness, max_payload_length), frame)
        error == IF w.error # "" THEN w.error
                 ELSE IF ~sink_ok THEN "OSError" ELSE ""
    IN /\ Len(written) < env.writes
       /\ hbuf' = IF error = "" THEN hbuf \o w.bytes ELSE hbuf
       /\ hlength' = IF error = "" /\ ~env.lag THEN Len(hbuf') ELSE hlength
       /\ written' = Append(written,
                            [frame |-> frame, error |-> error, end |-> Len(hbuf'),
                             seen |-> Len(delivered), mid |-> InFrame])
       /\ UNCHANGED <<conf_vars, link_vars, hindex, pc, ret, delivered, ref, noise,
                      broken, env, tasks>>

\* write_frame on the peer: the peer's link encodes the frame under its own
\* max_payload_length and its bytes arrive on this link's handle.
PeerWriteFrame(frame) ==
    LET w == Encoded[endianness][PeerMpl][frame]
    IN /\ Len(written) < env.writes
       /\ w.error = ""
       /\ hbuf' = hbuf \o w.bytes
       /\ hlength' = Len(hbuf')
       /\ written' = Append(written,
                            [frame |-> frame, error |-> "", end |-> Len(hbuf'),
                             seen |-> Len(delivered), mid |-> InFrame])
       /\ UNCHANGED <<conf_vars, link_vars, hindex, pc, ret, delivered, ref, noise,
                      broken, env, tasks>>

\* write_frame over a transport that carries only a part of the bytes the
\* handle is given (write_frame hands the whole frame to handle.write and
\* looks at nothing afterwards): the last k bytes of the frame never reach
\* the reading end.  At most one write of a run is short.
WriteFrameShort(frame, k) ==
    LET w == Encoded[endianness][max_payload_length][frame]
    IN /\ Len(written) < env.writes
       /\ \A i \in 1..Len(written) : written[i].error # "short"
       /\ w.error = ""
       /\ k \in 1..(Len(w.bytes) - 1)
       /\ hbuf' = hbuf \o SubSeq(w.bytes, 1, Len(w.bytes) - k)
       /\ hlength' = Len(hbuf')
       /\ written' = Append(written,
                            [frame |-> frame, error |-> "short", end |-> Len(hbuf'),
                             seen |-> Len(delivered), mid |-> InFrame])
       /\ UNCHANGED <<conf_vars, link_vars, hindex, pc, ret, delivered, ref, noise,
                      broken, env, tasks>>

(***************************************************************************)
(* AsyncTinyLink.write_frame running as a task:                            *)
(*     await self.handle.write(self._write_frame(frame))                   *)
(* A task runs from where it is to its next suspension in one step, no     *)
(* other task running in between.  The handle's write takes the bytes it   *)
(* is given at once (create_async_handle: writer.write(data)) and then     *)
(* suspends (await writer.drain()).                                        *)
(***************************************************************************)
\* A faulty write_frame, one that hands the preamble to the handle in a
\* call of its own.
SinkCallsInTwo(data) ==
    <<SubSeq(data, 1, LEN_PREAMBLE), SubSeq(data, LEN_PREAMBLE + 1, Len(data))>>

\* The arguments of the handle.write calls that write_frame makes for the
\* encoded frame: one call, with all of it.
SinkCalls(data) == <<data>>

\* A caller starts write_frame(frame) as a task.
CreateTask(frame) ==
    /\ Len(tasks) < MaxTasks
    /\ tasks' = Append(tasks, [frame |-> frame, at |-> "created", error |-> "",
                               todo |-> <<>>, calls |-> <<>>])
    /\ UNCHANGED <<conf_vars, link_vars, handle_vars, pc, ret, written, delivered,
                   ref, noise, broken, env>>

\* Task t runs to its next suspension or to its end.  sink_ok is whether
\* the handle does what the task asks of it next: take the bytes, or have
\* them drained.
TaskStep(t, sink_ok) ==
    LET task == tasks[t]
        w == Encoded[endianness][max_payload_length][task.frame]
        todo == IF task.at = "created" THEN SinkCalls(w.bytes) ELSE task.todo
    IN /\ task.at \in {"created", "suspended"}
       /\ IF task.at = "created" /\ w.error # ""
          THEN \* _write_frame raised: handle.write is never called.
               /\ sink_ok
               /\ tasks' = [tasks EXCEPT ![t].at = "raised", ![t].error = w.error]
               /\ UNCHANGED <<hbuf, hlength>>
          ELSE IF task.at = "suspended" /\ ~sink_ok
          THEN \* The drain raised: the bytes have been taken.
               /\ tasks' = [tasks EXCEPT ![t].at = "raised", ![t].error = "OSError"]
               /\ UNCHANGED <<hbuf, hlength>>
          ELSE IF todo = <<>>
          THEN \* Nothing more to hand over: write_frame returns.
               /\ tasks' = [tasks EXCEPT ![t].at = "returned"]
               /\ UNCHANGED <<hbuf, hlength>>
          ELSE IF sink_ok
          THEN \* handle.write(data): the bytes go on the wire in one piece.
               /\ hbuf' = hbuf \o Head(todo)
               /\ hlength' = Len(hbuf')
               /\ tasks' = [tasks EXCEPT
                              ![t].at = "suspended",
                              ![t].todo = Tail(todo),
                              ![t].calls = Append(@, [data |-> Head(todo),
                                                      end |-> Len(hbuf'),
                                                      raised |-> FALSE])]
          ELSE \* handle.write raised before it took anything.
               /\ tasks' = [tasks EXCEPT
                              ![t].at = "raised",
                              ![t].error = "OSError",
                              ![t].todo = todo,
                              ![t].calls = Append(@, [data |-> Head(todo),
                                                      end |-> Len(hbuf),
                                                      raised |-> TRUE])]
               /\ UNCHANGED <<hbuf, hlength>>
       /\ UNCHANGED <<conf_vars, link_vars, hindex, pc, ret, written, delivered,
                      ref, noise, broken, env>>

\* The transport delivers one more of the bytes written to it.
Arrive ==
    /\ env.lag
    /\ hlength < Len(hbuf)
    /\ hlength' = hlength + 1
    /\ UNCHANGED <<conf_vars, link_vars, hbuf, hindex, pc, ret, written, delivered,
                   ref, noise, broken, env, tasks>>

(***************************************************************************)
(* TinyLink.read_frame / AsyncTinyLink.read_frame, one loop iteration per  *)
(* step: the asynchronous link suspends at each handle.read(1), where the  *)
(* call can also be cancelled.                                             *)
(***************************************************************************)
\* A faulty read_frame, one that starts over when it is called.
ReadFrameCallStartsOver ==
    /\ pc = "idle"
    /\ pc' = "reading"
    /\ ret' = [kind |-> "pending", frame |-> None]
    /\ state' = WAITING_FOR_PREAMBLE
    /\ index' = 0
    /\ unescaping' = FALSE
    /\ UNCHANGED <<conf_vars, buffer, handle_vars, written, delivered, ref,
                   noise, broken, env, tasks>>

ReadFrameCall ==
    /\ pc = "idle"
    /\ pc' = "reading"
    /\ ret' = [kind |-> "pending", frame |-> None]
    /\ UNCHANGED <<conf_vars, link_vars, handle_vars, written, delivered, ref,
                   noise, broken, env, tasks>>

\* DummyHandle.read(1): the next readable byte, or nothing.
HandleRead == IF hindex < hlength THEN <<hbuf[hindex + 1]>> ELSE <<>>

\* A faulty end-of-file, one that starts over.
EofStartOver(self) ==
    [self |-> [self EXCEPT !.state = WAITING_FOR_PREAMBLE, !.index = 0,
                           !.unescaping = FALSE],
     result |-> None, error |-> ""]

\* `if not byte: return None`: read_frame returns with the fields as they are.
Eof(self) == [self |-> self, result |-> None, error |-> ""]

\* The unbroken reader fed the handle's bytes i+1 .. j.
RECURSIVE RefLoop(_, _, _)
RefLoop(rf, i, j) ==
    IF i >= j THEN rf
    ELSE LET r == _read_byte(rf.self, hbuf[i + 1])
         IN IF r.error # "" THEN rf
            ELSE RefLoop([self |-> r.self, frames |-> rf.frames \o r.result], i + 1, j)

\* A faulty read_frame, one that reads again after an empty read.
ReadFrameStepRetries ==
    /\ pc = "reading"
    /\ LET byte == HandleRead
       IN IF byte = <<>>
          THEN \* The empty read is not taken for the end: the loop goes round.
               UNCHANGED <<link_vars, hindex, pc, ret, delivered, ref, broken>>
          ELSE \E r \in {_read_byte(Self, byte[1])} :
                  /\ hindex' = hindex + 1
                  /\ state' = r.self.state
                  /\ buffer' = r.self.buffer
                  /\ index' = r.self.index
                  /\ unescaping' = r.self.unescaping
                  /\ ref' = RefLoop(ref, hindex, hindex + 1)
                  /\ UNCHANGED broken
                  /\ IF r.error # ""
                     THEN /\ pc' = "idle"
                          /\ ret' = [kind |-> r.error, frame |-> None]
                          /\ UNCHANGED delivered
                     ELSE IF r.result # None
                     THEN /\ pc' = "idle"
                          /\ ret' = [kind |-> "return", frame |-> r.result]
                          /\ delivered' = Append(delivered, [frame |-> r.result[1],
                                                             pos |-> hindex'])
                     ELSE /\ pc' = "reading"
                          /\ UNCHANGED <<ret, delivered>>
    /\ UNCHANGED <<conf_vars, hbuf, hlength, written, noise, env, tasks>>

ReadFrameStep ==
    /\ pc = "reading"
    /\ LET byte == HandleRead
       IN IF byte = <<>>
          THEN \* Handle end-of-file.
               \E r \in {Eof(Self)} :
                  /\ pc' = "idle"
                  /\ ret' = [kind |-> "return", frame |-> r.result]
                  /\ state' = r.self.state
                  /\ buffer' = r.self.buffer
                  /\ index' = r.self.index
                  /\ unescaping' = r.self.unescaping
                  /\ broken' = IF InFrame THEN broken \cup {Ended("eof", Self)}
                                ELSE broken
                  /\ UNCHANGED <<hindex, delivered, ref>>
          ELSE \E r \in {_read_byte(Self, byte[1])} :
                  /\ hindex' = hindex + 1
                  /\ state' = r.self.state
                  /\ buffer' = r.self.buffer
                  /\ index' = r.self.index
                  /\ unescaping' = r.self.unescaping
                  /\ ref' = RefLoop(ref, hindex, hindex + 1)
                  /\ UNCHANGED broken
                  /\ IF r.error # ""
                     THEN /\ pc' = "idle"
                          /\ ret' = [kind |-> r.error, frame |-> None]
                          /\ UNCHANGED delivered
                     ELSE IF r.result # None
                     THEN /\ pc' = "idle"
                          /\ ret' = [kind |-> "return", frame |-> r.result]
                          /\ delivered' = Append(delivered, [frame |-> r.result[1],
                                                             pos |-> hindex'])
                     ELSE /\ pc' = "reading"
                          /\ UNCHANGED <<ret, delivered>>
    /\ UNCHANGED <<conf_vars, hbuf, hlength, written, noise, env, tasks>>

\* A pending read_frame call is cancelled at its handle.read(1).
ReadFrameCancel ==
    /\ pc = "reading"
    /\ pc' = "idle"
    /\ ret' = [kind |-> "cancelled", frame |-> None]
    /\ broken' = IF InFrame THEN broken \cup {Ended("cancelled", Self)} ELSE broken
    /\ UNCHANGED <<conf_vars, link_vars, handle_vars, written, delivered, ref,
                   noise, env, tasks>>

Next ==
    \/ \E frame \in FewFrames, sink_ok \in BOOLEAN : WriteFrame(frame, sink_ok)
    \/ ReadFrameCall
    \/ ReadFrameStep
    \/ ReadFrameCancel

Spec == Init /\ [][Next]_vars

(***************************************************************************)
(* TinyLink.read_frame as one step: the blocking call runs its loop until  *)
(* a byte feed yields a frame, the handle reads empty, or a feed raises.   *)
(***************************************************************************)
\* A faulty loop, one that goes on past a frame while there are bytes to read.
RECURSIVE ReadLoopToLast(_, _)
ReadLoopToLast(self, i) ==
    IF i >= hlength
    THEN [self |-> self, result |-> None, error |-> "", hindex |-> i]
    ELSE LET r == _read_byte(self, hbuf[i + 1])
         IN IF r.error # "" \/ (r.result # None /\ i + 1 >= hlength)
            THEN [self |-> r.self, result |-> r.result, error |-> r.error,
                  hindex |-> i + 1]
            ELSE ReadLoopToLast(r.self, i + 1)

\* The loop from fields `self` with i bytes of the handle already read.
RECURSIVE ReadLoop(_, _)
ReadLoop(self, i) ==
    IF i >= hlength
    THEN [self |-> Eof(self).self, result |-> Eof(self).result, error |-> "",
          hindex |-> i]
    ELSE LET r == _read_byte(self, hbuf[i + 1])
         IN IF r.error # "" \/ r.result # None
            THEN [self |-> r.self, result |-> r.result, error |-> r.error,
                  hindex |-> i + 1]
            ELSE ReadLoop(r.self, i + 1)

ReadFrame ==
    /\ pc = "idle"
    /\ \E r \in {ReadLoop(Self, hindex)} :
          /\ hindex' = r.hindex
          /\ state' = r.self.state
          /\ buffer' = r.self.buffer
          /\ index' = r.self.index
          /\ unescaping' = r.self.unescaping
          /\ ref' = IF ref.self = Self /\ r.error = ""
                    THEN \* the same fields fed the same bytes: the same outcome
                         [self |-> r.self, frames |-> ref.frames \o r.result]
                    ELSE RefLoop(ref, hindex, r.hindex)
          /\ ret' = [kind |-> IF r.error # "" THEN r.error ELSE "return",
                     frame |-> r.result]
          /\ delivered' = IF r.result # None
                          THEN Append(delivered, [frame |-> r.result[1],
                                                  pos |-> r.hindex])
                          ELSE delivered
          /\ broken' = IF r.result = None /\ r.error = ""
                           /\ r.self.state # WAITING_FOR_PREAMBLE
                        THEN broken \cup {Ended("eof", r.self)} ELSE broken
    /\ UNCHANGED <<conf_vars, hbuf, hlength, pc, written, noise, env, tasks>>

(***************************************************************************)
(* What the tests do to the handle behind the link's back: write raw bytes *)
(* ahead of a frame (test_sync), overwrite a byte of a frame that has not  *)
(* been read yet (test_damaged).                                           *)
(***************************************************************************)
FillerBytes == {71}                \* "G": neither reserved nor in the preamble
GarbageBytes == {27, 85, 170}      \* the escape byte and the preamble's bytes
DamageBytes == {0, 27, 85, 170, 255}

\* handle.write(bytes([b])), before the link is used.
HandleWrite(b) ==
    /\ written = <<>>
    /\ ret.kind = "init"
    /\ pc = "idle"
    /\ \/ /\ b \in FillerBytes
          /\ noise.garbage = 0
          /\ noise.filler < env.filler
          /\ noise' = [noise EXCEPT !.filler = @ + 1]
       \/ /\ b \in GarbageBytes
          /\ noise.garbage < env.garbage
          /\ noise' = [noise EXCEPT !.garbage = @ + 1]
    /\ hbuf' = Append(hbuf, b)
    /\ hlength' = Len(hbuf')
    /\ UNCHANGED <<conf_vars, link_vars, hindex, pc, ret, written, delivered, ref,
                   broken, env, tasks>>

\* handle.buffer[i - 1] = b, for a byte not read yet.
Damage(i, b) ==
    /\ Len(noise.damage) < env.damage
    /\ i > hindex
    /\ i <= Len(hbuf)
    /\ b # hbuf[i]
    /\ hbuf' = [hbuf EXCEPT ![i] = b]
    /\ noise' = [noise EXCEPT !.damage = Append(@, [pos |-> i, old |-> hbuf[i],
                                                    new |-> b])]
    /\ UNCHANGED <<conf_vars, link_vars, hlength, hindex, pc, ret, written, delivered,
                   ref, broken, env, tasks>>

\* The link is attached to a handle of which the first k bytes have been
\* read already (DummyHandle.index = k): it starts in the middle of the stream.
Attach(k) ==
    /\ ret.kind = "init"
    /\ pc = "idle"
    /\ hindex = 0
    /\ k > 0
    /\ k <= hlength
    /\ hindex' = k
    /\ noise' = [noise EXCEPT !.skipped = k]
    /\ UNCHANGED <<conf_vars, link_vars, hbuf, hlength, pc, ret, written, delivered,
                   ref, broken, env, tasks>>

\* Frames for a stream that is joined in the middle: with and without
\* payload, with escaped bytes, and one whose CRC ends in AA 55 on a
\* big-endian wire.
AttachFrames ==
    {Frame(10, None), Frame(51541, None), Frame(170, Some(<<27>>)),
     Frame(65535, Some(<<170>>))}

\* SpecAttach: frames back to back, read by a blocking link that joins late.
InitAttach ==
    Start([lag |-> FALSE, writes |-> MaxWrites, filler |-> 0, garbage |-> 0,
           damage |-> 0])
NextAttach ==
    \/ \E frame \in AttachFrames : WriteFrame(frame, TRUE)
    \/ \E k \in 1..Len(hbuf) : Attach(k)
    \/ ReadFrame
SpecAttach == InitAttach /\ [][NextAttach]_vars

\* SpecSync: raw bytes ahead of one frame, read by the blocking link.
InitSync ==
    Start([lag |-> FALSE, writes |-> 1, filler |-> MaxFiller,
           garbage |-> MaxGarbage, damage |-> 0])
NextSync ==
    \/ \E b \in FillerBytes \cup GarbageBytes : HandleWrite(b)
    \/ \E frame \in TestFrames : WriteFrame(frame, TRUE)
    \/ ReadFrame
SpecSync == InitSync /\ [][NextSync]_vars

\* SpecDamaged: one frame damaged on the wire, read by the blocking link.
InitDamaged ==
    Start([lag |-> FALSE, writes |-> 1, filler |-> 0, garbage |-> 0,
           damage |-> MaxDamage])
NextDamaged ==
    \/ \E frame \in TestFrames : WriteFrame(frame, TRUE)
    \/ \E i \in 1..Len(hbuf), b \in DamageBytes : Damage(i, b)
    \/ ReadFrame
SpecDamaged == InitDamaged /\ [][NextDamaged]_vars

\* SpecLag: the same link over a transport that delivers bytes with a delay.
InitLag ==
    Start([lag |-> TRUE, writes |-> MaxFewWrites, filler |-> 0, garbage |-> 0,
           damage |-> 0])
NextLag ==
    \/ \E frame \in FewFrames : WriteFrame(frame, TRUE)
    \/ Arrive
    \/ ReadFrameCall
    \/ ReadFrameStep
    \/ ReadFrameCancel
SpecLag == InitLag /\ [][NextLag]_vars

\* SpecCodec: one frame of the wide set written and read back.
InitCodec ==
    Start([lag |-> FALSE, writes |-> 1, filler |-> 0, garbage |-> 0, damage |-> 0])
NextCodec ==
    \/ \E frame \in WideFrames : WriteFrame(frame, TRUE)
    \/ ReadFrame
SpecCodec == InitCodec /\ [][NextCodec]_vars

\* SpecBlocking: frames written back to back and read by the blocking link.
InitBlocking ==
    Start([lag |-> FALSE, writes |-> MaxWrites, filler |-> 0, garbage |-> 0,
           damage |-> 0])
NextBlocking ==
    \/ \E frame \in TestFrames, sink_ok \in BOOLEAN : WriteFrame(frame, sink_ok)
    \/ ReadFrame
SpecBlocking == InitBlocking /\ [][NextBlocking]_vars

\* SpecMismatch: frames sent by the peer, whose limit is larger, and read
\* by the blocking link.
InitMismatch ==
    Start([lag |-> FALSE, writes |-> MaxWrites, filler |-> 0, garbage |-> 0,
           damage |-> 0])
NextMismatch ==
    \/ \E frame \in PeerFrames : PeerWriteFrame(frame)
    \/ ReadFrame
SpecMismatch == InitMismatch /\ [][NextMismatch]_vars

\* SpecHeader: frames of all the flags and payloads of the codec runs are
\* written and read back byte by byte, so that the reader comes to stand
\* before the last byte of many headers.
InitHeader ==
    Start([lag |-> FALSE, writes |-> 1, filler |-> 0, garbage |-> 0, damage |-> 0])
NextHeader ==
    \/ \E frame \in WideFrames : WriteFrame(frame, TRUE)
    \/ ReadFrameCall
    \/ ReadFrameStep
SpecHeader == InitHeader /\ [][NextHeader]_vars

\* SpecLive: the link over the lagging transport, its read_frame loop
\* running on whenever it can (handle.read(1) returns, with a byte or empty),
\* and no call cancelled.
InitLive ==
    Start([lag |-> TRUE, writes |-> MaxFewWrites, filler |-> 0, garbage |-> 0,
           damage |-> 0])
NextLive ==
    \/ \E frame \in FewFrames : WriteFrame(frame, TRUE)
    \/ Arrive
    \/ ReadFrameCall
    \/ ReadFrameStep
SpecLive == InitLive /\ [][NextLive]_vars /\ WF_vars(ReadFrameStep)

\* SpecCut: up to MaxBurst frames written in a row, one of them cut short by
\* the handle, and then read byte by byte.
CutFrames == {Frame(10, None), Frame(123, Some(<<97>>))}
NothingRead == ret.kind = "init" /\ pc = "idle"
InitCut ==
    Start([lag |-> FALSE, writes |-> MaxBurst, filler |-> 0, garbage |-> 0,
           damage |-> 0])
NextCut ==
    \/ \E frame \in CutFrames : NothingRead /\ WriteFrame(frame, TRUE)
    \/ \E frame \in CutFrames, k \in 1..(LEN_HEADER + LEN_BODY + 1 + MaxMpl) * 2 :
          NothingRead /\ WriteFrameShort(frame, k)
    \/ ReadFrameCall
    \/ ReadFrameStep
SpecCut == InitCut /\ [][NextCut]_vars

\* SpecTasks: up to MaxTasks write_frame calls running as tasks on one
\* asynchronous link, each started at any time and run whenever the
\* scheduler picks it, over a handle that may fail.
InitTasks ==
    Start([lag |-> FALSE, writes |-> 0, filler |-> 0, garbage |-> 0, damage |-> 0])
NextTasks ==
    \/ \E frame \in FewFrames : CreateTask(frame)
    \/ \E t \in 1..Len(tasks), sink_ok \in BOOLEAN : TaskStep(t, sink_ok)
SpecTasks == InitTasks /\ [][NextTasks]_vars

(***************************************************************************)
(* _escape(data) on its own, with what it returned.                        *)
(***************************************************************************)
\* Data tried: every sequence of up to MaxData bytes out of a plain byte,
\* the escape byte and the two bytes of the preamble.
DataBytes == {0, ESCAPE, 85, FLAG}
DataTried == UNION {[1..n -> DataBytes] : n \in 0..MaxData}

Escape(data) ==
    /\ ret.kind = "init"
    /\ ret' = [kind |-> "return", frame |-> None, data |-> data,
               escaped |-> _escape(data)]
    /\ UNCHANGED <<conf_vars, link_vars, handle_vars, pc, written, delivered, ref,
                   noise, broken, env, tasks>>

\* SpecEscape: _escape is called once.
InitEscape ==
    Start([lag |-> FALSE, writes |-> 0, filler |-> 0, garbage |-> 0, damage |-> 0])
NextEscape == \E data \in DataTried : Escape(data)
SpecEscape == InitEscape /\ [][NextEscape]_vars

\* SpecSeek: raw bytes ahead of one frame, read byte by byte, so that the
\* preamble search goes through full buffers (test_sync, test_sync_small).
SeekFrames == {Frame(10, None), Frame(123, Some(<<97>>))}
InitSeek ==
    Start([lag |-> FALSE, writes |-> 1, filler |-> MaxFiller,
           garbage |-> MaxGarbage, damage |-> 0])
NextSeek ==
    \/ \E b \in FillerBytes \cup GarbageBytes : HandleWrite(b)
    \/ \E frame \in SeekFrames : WriteFrame(frame, TRUE)
    \/ ReadFrameCall
    \/ ReadFrameStep
SpecSeek == InitSeek /\ [][NextSeek]_vars

\* SpecStep: one frame, damaged on the wire or not, read byte by byte.  A
\* wire byte is overwritten by a plain byte, by the escape byte (an escape
\* marker is made) or by the marker byte (an escape marker is unmade).
StepDamageBytes == {0, ESCAPE, FLAG}
InitStep ==
    Start([lag |-> FALSE, writes |-> 1, filler |-> 0, garbage |-> 0,
           damage |-> MaxDamage])
NextStep ==
    \/ \E frame \in StepFrames : WriteFrame(frame, TRUE)
    \/ \E i \in 1..Len(hbuf), b \in StepDamageBytes : Damage(i, b)
    \/ ReadFrameCall
    \/ ReadFrameStep
SpecStep == InitStep /\ [][NextStep]_vars

\* SpecCapacity: a link made with the command line's default length, and
\* frames up to the longest payload the class documents.
CliLength == 65536
Zeros(n) == [i \in 1..n |-> 0]
CapacityFrames ==
    {Frame(10, None), Frame(170, Some(<<27>>)), Frame(123, Some(<<97>>)),
     Frame(3237, Some(<<204, 23, 23>>)), Frame(0, Some(Zeros(CliLength)))}
InitCapacity ==
    StartOf([lag |-> FALSE, writes |-> MaxWrites, filler |-> 0, garbage |-> 0,
             damage |-> 0], {CliLength})
NextCapacity ==
    \/ \E frame \in CapacityFrames : WriteFrame(frame, TRUE)
    \/ ReadFrame
SpecCapacity == InitCapacity /\ [][NextCapacity]_vars

(***************************************************************************)
(* Frame(flags, payload): the constructor call, with what it returned or   *)
(* raised.                                                                 *)
(***************************************************************************)
\* Flags tried: around 0, around 65535, and at the next powers of two.
FlagsTried ==
    (-MaxBeyond..MaxBeyond) \cup ((65535 - MaxBeyond)..(65535 + MaxBeyond))
        \cup {-131072, -65537, -65536, -65535, -32768, 32767, 32768, 131071, 131072}
PayloadsTried == {None, Some(<<>>), Some(<<97>>)}

FrameInit(flags, payload) ==
    /\ ret' = IF FrameInitRaises(flags)
              THEN [kind |-> "ValueError", frame |-> None,
                    flags |-> flags, payload |-> payload]
              ELSE [kind |-> "return", frame |-> Some(Frame(flags, payload)),
                    flags |-> flags, payload |-> payload]
    /\ UNCHANGED <<conf_vars, link_vars, handle_vars, pc, written, delivered, ref,
                   noise, broken, env, tasks>>

\* SpecFrame: frames are constructed, one after another.
InitFrame ==
    Start([lag |-> FALSE, writes |-> 0, filler |-> 0, garbage |-> 0, damage |-> 0])
NextFrame == \E flags \in FlagsTried, payload \in PayloadsTried : FrameInit(flags, payload)
SpecFrame == InitFrame /\ [][NextFrame]_vars

(***************************************************************************)
(* Construction with a damaged-frame policy.  BaseTinyLink.__init__ takes  *)
(* endianness and max_payload_length; TinyLink and AsyncTinyLink pass      *)
(* their *args and **kwargs on to it.  A keyword it does not take raises   *)
(* TypeError and no link is made.                                          *)
(***************************************************************************)
InitKeywords == {"endianness", "max_payload_length"}
InitRaises(kwargs) == kwargs \ InitKeywords # {}

\* How a caller asks for a policy: the strict one is the default, asked for
\* by passing nothing; the lenient one is asked for by a keyword (the
\* package's former reader took ignore_damaged=False for it).
PolicyKeywords == [strict |-> {}, lenient |-> {"ignore_damaged"}]

\* The state after a constructor call that raised: there is no link to
\* write to or read from.
NoLink(policy) ==
    /\ env = [lag |-> FALSE, writes |-> 0, filler |-> 0, garbage |-> 0,
              damage |-> 0, policy |-> policy]
    /\ endianness \in Endians
    /\ max_payload_length \in Mpls
    /\ state = WAITING_FOR_PREAMBLE
    /\ buffer = <<>>
    /\ index = 0
    /\ unescaping = FALSE
    /\ hbuf = <<>>
    /\ hlength = 0
    /\ hindex = 0
    /\ pc = "raised"
    /\ ret = [kind |-> "TypeError", frame |-> None]
    /\ written = <<>>
    /\ delivered = <<>>
    /\ ref = [self |-> NewLink(endianness, max_payload_length), frames |-> <<>>]
    /\ noise = [filler |-> 0, garbage |-> 0, damage |-> <<>>, skipped |-> 0]
    /\ broken = {}
    /\ tasks = <<>>

\* SpecPolicy: a link constructed with one of the two policies, then used
\* as in Spec.
InitPolicy ==
    \E policy \in DOMAIN PolicyKeywords :
        IF InitRaises(PolicyKeywords[policy])
        THEN NoLink(policy)
        ELSE Start([lag |-> FALSE, writes |-> MaxFewWrites, filler |-> 0,
                    garbage |-> 0, damage |-> 0, policy |-> policy])
SpecPolicy == InitPolicy /\ [][Next]_vars

(***************************************************************************)
(* Properties.                                                             *)
(***************************************************************************)
\* The write_frame calls that put a frame on the wire, in order.
OkWrites == SelectSeq(written, LAMBDA w : w.error = "")

\* The frame f read is the frame w written: the same flags, the same payload
\* bytes (a frame written without payload carries no payload bytes).
SameFrame(f, w) ==
    /\ f.flags = w.flags
    /\ f.payload = Some(PayloadOrBytes(w.payload))

\* No raw byte was put on the wire and no byte of it was overwritten.
CleanWire ==
    noise.filler = 0 /\ noise.garbage = 0 /\ noise.damage = <<>> /\ noise.skipped = 0

\* C1. Round trip: a frame written by write_frame on a new link, for either
\* endianness, any flags and any payload that fits, is returned by read_frame
\* with the same flags and the same payload bytes once exactly the bytes
\* written have been fed; until they have been fed nothing is returned.
RoundTrip ==
    (CleanWire /\ OkWrites # <<>>) =>
        IF hindex >= OkWrites[1].end
        THEN /\ delivered # <<>>
             /\ SameFrame(delivered[1].frame, OkWrites[1].frame)
             /\ delivered[1].pos = OkWrites[1].end
        ELSE delivered = <<>>

\* A big-endian frame whose flags are two markers and whose payload is the
\* escape byte has been written and read back.
RoundTripWitness ==
    /\ endianness = BIG_ENDIAN
    /\ Len(written) = 1
    /\ written[1].frame = Frame(43690, Some(<<ESCAPE>>))
    /\ Len(delivered) = 1
    /\ delivered[1].frame = Frame(43690, Some(<<ESCAPE>>))
    /\ hindex = Len(hbuf)

\* The bytes a reader that is inside a frame and not after an escape marker
\* makes of wire bytes: each escape marker announces the byte after it.
RECURSIVE UnescapeFrom(_, _)
UnescapeFrom(wire, i) ==
    IF i > Len(wire) THEN <<>>
    ELSE IF wire[i] = ESCAPE /\ i < Len(wire)
    THEN <<wire[i + 1]>> \o UnescapeFrom(wire, i + 2)
    ELSE <<wire[i]>> \o UnescapeFrom(wire, i + 1)
Unescape(wire) == UnescapeFrom(wire, 1)

\* The wire bytes s+1 .. t follow a preamble and unescape to a whole frame
\* that checks out: a header of five bytes whose last is the XOR of the
\* other four and whose length fits the link, as many payload bytes as the
\* length says, and four bytes that are the CRC of header and payload.
\* The frame is f.
ChecksOut(s, t, f) ==
    /\ s >= LEN_PREAMBLE
    /\ SubSeq(hbuf, s - 3, s) = PackI(endianness, PREAMBLE)
    /\ LET u == Unescape(SubSeq(hbuf, s + 1, t))
       IN /\ Len(u) >= LEN_HEADER + LEN_CRC
          /\ LET flags == UnpackH(endianness, SubSeq(u, 1, 2))
                 length == UnpackH(endianness, SubSeq(u, 3, 4))
             IN /\ u[5] = BitXor(BitXor(u[1], u[2]), BitXor(u[3], u[4]))
                /\ length <= max_payload_length
                /\ Len(u) = LEN_HEADER + length + LEN_CRC
                /\ f.flags = flags
                /\ f.payload = Some(SubSeq(u, 6, 5 + length))
                /\ SubSeq(u, 6 + length, 9 + length)
                   = PackI(endianness, crc32(SubSeq(u, 1, 5 + length)))

\* C2. The reader never emits a corrupted frame as valid: every frame
\* read_frame has returned was assembled from wire bytes that follow a
\* preamble and unescape to five header bytes whose checksum byte is the XOR
\* of the flags and length bytes, a length no larger than max_payload_length,
\* exactly that many payload bytes, and four CRC bytes equal to the checksum
\* recomputed over header and payload.
NeverEmitsCorrupted ==
    \A k \in 1..Len(delivered) :
        \E s \in 0..delivered[k].pos : ChecksOut(s, delivered[k].pos, delivered[k].frame)

\* A frame was returned from a wire with an overwritten byte.
NeverEmitsCorruptedWitness ==
    /\ delivered # <<>>
    /\ noise.damage # <<>>
    /\ noise.damage[1].pos <= delivered[1].pos

\* The raw bytes written to the handle ahead of the first frame.
Garbage == SubSeq(hbuf, 1, noise.filler + noise.garbage)

\* The positions at which pat occurs in seq.
Occurrences(pat, seq) ==
    {i \in 1..(Len(seq) - Len(pat) + 1) : SubSeq(seq, i, i + Len(pat) - 1) = pat}

\* The preamble as it is on the wire.
WirePreamble == PackI(endianness, PREAMBLE)

\* Garbage, then one frame, and read_frame was called until it returned
\* None with every byte read.
GarbageThenFrameRead ==
    /\ noise.filler + noise.garbage > 0
    /\ Len(OkWrites) = 1
    /\ hindex = Len(hbuf)
    /\ ret = [kind |-> "return", frame |-> None]

\* read_frame returned the one frame written, and nothing else.
ExactlyThatFrame ==
    /\ Len(delivered) = 1
    /\ SameFrame(delivered[1].frame, OkWrites[1].frame)
    /\ delivered[1].pos = OkWrites[1].end

\* C3, as stated. Resynchronisation: leading garbage that does not itself
\* contain the four-byte wire preamble, followed by one well-formed frame,
\* makes a reader that starts in its initial state return exactly that frame.
ResyncGarbageWithoutPreamble ==
    (GarbageThenFrameRead /\ Occurrences(WirePreamble, Garbage) = {})
        => ExactlyThatFrame

\* C3, amended. Resynchronisation: leading garbage such that the wire preamble
\* occurs in the garbage followed by the frame's own preamble only as the
\* last four bytes (no earlier match, inside the garbage or across its end),
\* followed by one well-formed frame, makes a reader that starts in its
\* initial state return exactly that frame, for every buffer size.
Resync ==
    (GarbageThenFrameRead
     /\ Occurrences(WirePreamble, Garbage \o WirePreamble) = {Len(Garbage) + 1})
        => ExactlyThatFrame

\* The smallest buffer has slid, the garbage ends in three bytes that are in
\* the preamble, and the frame after it was returned.
ResyncWitness ==
    /\ GarbageThenFrameRead
    /\ Occurrences(WirePreamble, Garbage \o WirePreamble) = {Len(Garbage) + 1}
    /\ max_payload_length = 0
    /\ noise.filler >= BufferSize(0) - 2
    /\ noise.garbage = MaxGarbage
    /\ ESCAPE \notin {Garbage[i] : i \in 1..Len(Garbage)}
    /\ ExactlyThatFrame

\* The first frame put on the wire: its bytes as written, and where they
\* start on the handle.
FirstWire == Encoded[endianness][max_payload_length][OkWrites[1].frame].bytes
FirstStart == OkWrites[1].end - Len(FirstWire)

\* In escaped bytes, the position after the first k units, a unit being a
\* plain byte or an escape marker and the byte it announces.
RECURSIVE AfterUnits(_, _, _)
AfterUnits(wire, k, pos) ==
    IF k = 0 THEN pos
    ELSE AfterUnits(wire, k - 1, IF wire[pos + 1] = ESCAPE THEN pos + 2 ELSE pos + 1)

\* The handle positions of the first frame's wire bytes that carry the
\* bytes a .. b of header + payload + CRC (counted from 1).
FieldPositions(a, b) ==
    LET escaped == SubSeq(FirstWire, LEN_PREAMBLE + 1, Len(FirstWire))
    IN {FirstStart + LEN_PREAMBLE + p :
            p \in (AfterUnits(escaped, a - 1, 0) + 1)..AfterUnits(escaped, b, 0)}

ChecksumHeaderField == FieldPositions(LEN_HEADER, LEN_HEADER)
ChecksumFrameField ==
    LET length == Len(PayloadOrBytes(OkWrites[1].frame.payload))
    IN FieldPositions(LEN_HEADER + length + 1, LEN_HEADER + length + LEN_CRC)

\* One frame was written and, before any of it was read, one byte of it was
\* overwritten, at one of the positions in field.
OneFrameDamagedIn(field) ==
    /\ Len(OkWrites) = 1
    /\ Len(noise.damage) = 1
    /\ noise.damage[1].pos \in field

\* C4. Header corruption: when a wire byte of the header checksum field of
\* one well-formed frame is replaced by a different value, read_frame
\* returns no frame for that transmission.
HeaderCorruption ==
    OneFrameDamagedIn(ChecksumHeaderField) => delivered = <<>>

\* The overwritten byte was an escape byte and is now the marker byte.
EscapeBecameFlag == noise.damage[1].old = ESCAPE /\ noise.damage[1].new = FLAG

\* What does hold of header corruption: no frame is returned unless an
\* escape byte of the field was replaced by the marker byte.
HeaderCorruptionExceptEscape ==
    (OneFrameDamagedIn(ChecksumHeaderField) /\ ~EscapeBecameFlag) => delivered = <<>>

\* C5. Damaged body: when a wire byte of the trailing CRC field of one
\* well-formed frame is replaced by a different value, the header left
\* intact, the reader never returns a frame for that transmission.
DamagedBody ==
    OneFrameDamagedIn(ChecksumFrameField) => delivered = <<>>

\* What does hold of a damaged CRC field: no frame is returned unless an
\* escape byte of the field was replaced by the marker byte.
DamagedBodyExceptEscape ==
    (OneFrameDamagedIn(ChecksumFrameField) /\ ~EscapeBecameFlag) => delivered = <<>>

\* The frames delivered are the frames put on the wire whose last byte has
\* been read, in order, each returned when its last byte was read.
DeliveredInOrder ==
    /\ Len(delivered) = Cardinality({i \in 1..Len(OkWrites) : OkWrites[i].end <= hindex})
    /\ \A i \in 1..Len(delivered) :
          /\ SameFrame(delivered[i].frame, OkWrites[i].frame)
          /\ delivered[i].pos = OkWrites[i].end

\* The last write_frame call, if this step is one.
WriteFrameReturns == Len(written') = Len(written) + 1
LastWrite == written'[Len(written')]

\* C6. LengthExceeded: write_frame with a payload longer than
\* max_payload_length fails with an error, passes no byte to the sink and
\* leaves state, buffer, index and unescaping unchanged; the link stays
\* usable: the frames written before and after the failed call are read
\* back as if it had not been made.
LengthExceededHarmless ==
    /\ [](\A i \in 1..Len(written) :
            Len(PayloadOrBytes(written[i].frame.payload)) > max_payload_length
                => written[i].error = "ValueError")
    /\ [][(WriteFrameReturns /\ LastWrite.error = "ValueError")
            => UNCHANGED <<handle_vars, link_vars, conf_vars, delivered>>]_vars
    /\ [](CleanWire => DeliveredInOrder)

\* A write_frame call failed on the payload's length, the next one put a
\* frame on the wire and read_frame returned that frame.
LengthExceededWitness ==
    /\ Len(written) = 2
    /\ written[1].error = "ValueError"
    /\ written[2].error = ""
    /\ Len(delivered) = 1
    /\ SameFrame(delivered[1].frame, written[2].frame)
    /\ hbuf = Encoded[endianness][max_payload_length][written[2].frame].bytes

\* The write_frame calls whose frame has not been read to its end.
Unread == {i \in 1..Len(OkWrites) : OkWrites[i].end > hindex}

\* C7. Ordering of back-to-back frames: frames written one after another
\* with nothing in between are returned by successive read_frame calls in
\* the order written, one per call, with the same flags and payload bytes,
\* each call reading up to the last byte of its frame and no further; a call
\* made when every frame has been returned reads nothing and returns None,
\* and no call raises.
Ordering ==
    /\ [](/\ Len(delivered) <= Len(OkWrites)
          /\ \A i \in 1..Len(delivered) :
                /\ delivered[i].frame.flags = OkWrites[i].frame.flags
                /\ delivered[i].frame.payload[1]
                   = PayloadOrBytes(OkWrites[i].frame.payload)
                /\ delivered[i].pos = OkWrites[i].end)
    /\ [][written' = written =>
            IF Unread # {}
            THEN /\ delivered' = Append(delivered, [frame |-> ret'.frame[1],
                                                    pos |-> hindex'])
                 /\ Len(delivered') = Len(OkWrites) - Cardinality(Unread) + 1
                 /\ ret'.kind = "return"
            ELSE /\ ret' = [kind |-> "return", frame |-> None]
                 /\ hindex' = hindex
                 /\ delivered' = delivered]_vars

\* Two different frames were written before the first was returned, two
\* calls returned them in order and a third call returned None.
OrderingWitness ==
    /\ Len(OkWrites) = 2
    /\ OkWrites[2].seen = 0
    /\ Len(delivered) = 2
    /\ OkWrites[1].frame # OkWrites[2].frame
    /\ ret = [kind |-> "return", frame |-> None]
    /\ hindex = Len(hbuf)
    /\ state = WAITING_FOR_PREAMBLE /\ index = 0

\* This step is a read_frame call returning without having read a byte.
ReturnsOnEmptyRead ==
    /\ pc = "reading"
    /\ pc' = "idle"
    /\ hindex' = hindex
    /\ ret'.kind # "cancelled"

\* C8. End of stream: when the source returns an empty read, read_frame
\* returns None, not an error, and leaves state, buffer, index and
\* unescaping as they were; a later read_frame call starts from that state
\* and, once the source produces the remaining bytes, returns the frame.
EndOfStream ==
    /\ [][ReturnsOnEmptyRead =>
            /\ hindex = hlength
            /\ ret' = [kind |-> "return", frame |-> None]
            /\ UNCHANGED <<link_vars, delivered>>]_vars
    /\ [][(pc = "idle" /\ pc' = "reading") => UNCHANGED <<link_vars, hindex>>]_vars
    /\ []((\A b \in broken : b.how = "eof") =>
            /\ Len(delivered) <= Len(OkWrites)
            /\ \A i \in 1..Len(delivered) :
                  /\ SameFrame(delivered[i].frame, OkWrites[i].frame)
                  /\ OkWrites[i].end = delivered[i].pos)

\* A read_frame call ended on an empty read after the escape marker of an
\* escaped byte, none was cancelled, and a later call returned the frame.
EndOfStreamWitness ==
    /\ broken = {Ended("eof", [unescaping |-> TRUE])}
    /\ Len(delivered) = 1
    /\ SameFrame(delivered[1].frame, OkWrites[1].frame)
    /\ ret.kind = "return" /\ ret.frame # None

\* The frames returned so far, in order.
DeliveredFrames == [i \in 1..Len(delivered) |-> delivered[i].frame]

\* C9. Resumability: the frames delivered depend only on the bytes obtained
\* from the source, not on how they are divided among read_frame calls:
\* whatever calls were cancelled or ended on an empty read, after any
\* number of bytes, the link's fields and the frames returned are those of
\* one uninterrupted read of the same bytes.
Resumable ==
    /\ ref.self = Self
    /\ ref.frames = DeliveredFrames

\* Calls were cancelled and ended on empty reads inside a frame, after the
\* escape marker of an escaped byte and elsewhere, and the frame was
\* returned all the same.
ResumableWitness ==
    /\ broken = {Ended(how, [unescaping |-> u]) :
                    how \in {"eof", "cancelled"}, u \in BOOLEAN}
    /\ Len(delivered) = 1
    /\ SameFrame(delivered[1].frame, OkWrites[1].frame)
    /\ hindex = OkWrites[1].end

\* C10. Reading and writing are independent: a write_frame call, whether it
\* succeeds, fails on the payload's length or fails in the sink, leaves
\* state, buffer, index and unescaping as they are, and with them the
\* pending read_frame call and what has been read; the frames the reader
\* delivers are those of a reader fed the same bytes with no write_frame
\* call in between.
WritesLeaveReaderAlone ==
    /\ [][WriteFrameReturns =>
            UNCHANGED <<link_vars, conf_vars, hindex, pc, ret, delivered>>]_vars
    /\ [](ref.frames = DeliveredFrames /\ ref.self.index = index)

\* A write_frame call failed in the sink while the reader was inside a
\* frame that it went on to return.
WritesLeaveReaderAloneWitness ==
    /\ Len(written) = 2
    /\ written[2].mid
    /\ written[2].seen = 0
    /\ written[2].error = "OSError"
    /\ Len(delivered) = 1
    /\ SameFrame(delivered[1].frame, written[1].frame)

\* The payload bytes of the i-th frame put on the wire.
WrittenPayload(i) == PayloadOrBytes(written[i].frame.payload)

\* Every byte on the handle has been read and read_frame has returned None.
ReadToTheEnd ==
    /\ hindex = Len(hbuf)
    /\ ret = [kind |-> "return", frame |-> None]

\* The peer sent a frame too long for this link, then one that fits, and
\* this link read the first only after the second was on the wire.
TooLongThenFitting ==
    /\ Len(written) = 2
    /\ Len(WrittenPayload(1)) > max_payload_length
    /\ Len(WrittenPayload(2)) <= max_payload_length

\* C11. Mismatched limits: a receiver whose max_payload_length is smaller
\* than the sender's emits no frame for a well-formed frame whose payload
\* exceeds its limit, returns to seeking the preamble, and delivers the
\* next well-formed frame that fits its limit, for either endianness.
MismatchedLimits ==
    /\ (Len(written) = 1 /\ Len(WrittenPayload(1)) > max_payload_length
        /\ ReadToTheEnd)
           => (delivered = <<>> /\ state = WAITING_FOR_PREAMBLE)
    /\ (TooLongThenFitting /\ ReadToTheEnd)
           => (/\ Len(delivered) = 1
               /\ SameFrame(delivered[1].frame, written[2].frame)
               /\ delivered[1].pos = written[2].end)

\* What does hold of mismatched limits: the frame that fits is delivered
\* when the wire holds the preamble at the start of the two frames only.
MismatchedLimitsNoFalsePreamble ==
    (TooLongThenFitting /\ ReadToTheEnd
     /\ Occurrences(WirePreamble, hbuf) = {1, written[1].end + 1})
        => (/\ Len(delivered) = 1
            /\ SameFrame(delivered[1].frame, written[2].frame)
            /\ delivered[1].pos = written[2].end)

\* Where the i-th frame put on the wire starts: the handle's length before it.
FrameStart(i) == IF i = 1 THEN 0 ELSE OkWrites[i - 1].end

\* The frames put on the wire that start before the link was attached.
Missed == {i \in 1..Len(OkWrites) : FrameStart(i) < noise.skipped}

\* The frames delivered are those that start where the link was attached or
\* later, unchanged and in order.
DeliveredFromAttachment ==
    /\ Len(delivered) = Len(OkWrites) - Cardinality(Missed)
    /\ \A j \in 1..Len(delivered) :
          /\ SameFrame(delivered[j].frame, OkWrites[Cardinality(Missed) + j].frame)
          /\ delivered[j].pos = OkWrites[Cardinality(Missed) + j].end

\* C12. Attaching mid-stream: a reader in its initial state that starts
\* consuming a stream of back-to-back well-formed frames at an arbitrary
\* byte offset delivers every frame whose preamble begins at or after that
\* offset, unchanged and in order, for either endianness.
AttachMidStream ==
    (noise.skipped > 0 /\ ReadToTheEnd) => DeliveredFromAttachment

\* What does hold of attaching mid-stream: those frames are delivered when
\* the bytes consumed hold the preamble at the starts of frames only.
AttachMidStreamNoFalsePreamble ==
    (noise.skipped > 0 /\ ReadToTheEnd
     /\ \A p \in Occurrences(WirePreamble, hbuf) :
           p > noise.skipped => \E i \in 1..Len(OkWrites) : FrameStart(i) = p - 1)
        => DeliveredFromAttachment

\* The header, payload and CRC of the first frame put on the wire, before
\* byte-stuffing: flags and length as two bytes each in the link's byte
\* order, their XOR, the payload, and the CRC as four bytes in that order.
FirstRaw ==
    LET flags == OkWrites[1].frame.flags
        payload == PayloadOrBytes(OkWrites[1].frame.payload)
        two(v) == IF endianness = LITTLE_ENDIAN THEN <<v % 256, v \div 256>>
                  ELSE <<v \div 256, v % 256>>
        four == two(flags) \o two(Len(payload))
        header == Append(four, BitXor(BitXor(four[1], four[2]),
                                      BitXor(four[3], four[4])))
        c == crc32(header \o payload)
    IN header \o payload
       \o (IF endianness = LITTLE_ENDIAN THEN two(c.lo) \o two(c.hi)
           ELSE two(c.hi) \o two(c.lo))

\* How many of the bytes of seq are the marker byte or the escape byte.
Reserved(seq) == Cardinality({i \in 1..Len(seq) : seq[i] \in {FLAG, ESCAPE}})

\* C13. Encoding layout and byte-stuffing: the encoded frame is the four
\* literal preamble bytes followed by header (5 bytes), payload and CRC
\* (4 bytes) in which every marker or escape byte is replaced by the pair
\* (escape byte, original byte) and every other byte is emitted unchanged
\* in order; its length is 13 + len(payload) + the number of header,
\* payload and CRC bytes equal to the marker or the escape byte, and never
\* less than 13.
EncodingLayout ==
    OkWrites # <<>> =>
        LET wire == FirstWire
            stuffed == SubSeq(wire, LEN_PREAMBLE + 1, Len(wire))
        IN /\ SubSeq(wire, 1, LEN_PREAMBLE)
              = (IF endianness = LITTLE_ENDIAN THEN <<85, 170, 85, 170>>
                 ELSE <<170, 85, 170, 85>>)
           /\ Unescape(stuffed) = FirstRaw
           /\ \A p \in 1..Len(stuffed) :
                 stuffed[p] = FLAG => (p > 1 /\ stuffed[p - 1] = ESCAPE)
           /\ Len(wire) = 13 + Len(PayloadOrBytes(OkWrites[1].frame.payload))
                              + Reserved(FirstRaw)
           /\ Len(wire) >= 13
           /\ SubSeq(hbuf, 1, Len(wire)) = wire

\* A frame whose flags hold the marker and whose payload is the escape byte
\* and the marker has been written: three bytes at least are stuffed.
EncodingLayoutWitness ==
    /\ Len(written) = 1
    /\ written[1].error = ""
    /\ written[1].frame = Frame(170, Some(<<ESCAPE, FLAG>>))
    /\ Len(hbuf) >= 13 + 2 + 3

\* The first frame put on the wire was written without payload, and
\* read_frame has returned a frame for it.
NoPayloadRead ==
    /\ CleanWire
    /\ OkWrites # <<>>
    /\ OkWrites[1].frame.payload = None
    /\ delivered # <<>>

\* The first frame on the wire declares length 0 and carries nothing but
\* its header and its four CRC bytes.
DeclaresNoPayload ==
    /\ Len(FirstRaw) = LEN_HEADER + LEN_CRC
    /\ SubSeq(FirstRaw, 3, 4) = <<0, 0>>
    /\ Unescape(SubSeq(FirstWire, LEN_PREAMBLE + 1, Len(FirstWire))) = FirstRaw

\* C14. Frame without payload: a frame written with payload None is
\* transmitted with declared length 0 and its four-byte CRC, and read_frame
\* returns for it a frame with the same flags and payload None, as written.
NoPayloadRoundTrip ==
    NoPayloadRead =>
        /\ DeclaresNoPayload
        /\ delivered[1].frame = Frame(OkWrites[1].frame.flags, None)

\* What does hold of a frame without payload: it is transmitted with
\* declared length 0 and read back with the same flags and the empty
\* payload b'', not None.
NoPayloadReadsEmpty ==
    NoPayloadRead =>
        /\ DeclaresNoPayload
        /\ delivered[1].frame = Frame(OkWrites[1].frame.flags, Some(<<>>))

\* The byte b ends a body on the fields self: it is the last of the
\* length + 4 bytes after the header (an escape marker ends nothing).
EndsBody(self, b) ==
    /\ self.state = WAITING_FOR_BODY
    /\ self.unescaping \/ b # ESCAPE
    /\ (IF self.unescaping THEN self.index ELSE self.index + 1)
           = UnpackHeader(self.endianness, self.buffer).length + LEN_HEADER + LEN_CRC

\* The body that b ends on the fields self, and whether the CRC it carries
\* is the CRC of the header and the payload before it.
BodyEndedBy(self, b) ==
    Store(self.buffer, IF self.unescaping THEN self.index - 1 ELSE self.index, b)
CrcMatches(e, body) ==
    LET length == UnpackHeader(e, body).length
    IN UnpackI(e, Slice(body, LEN_HEADER + length, LEN_HEADER + length + LEN_CRC))
          = crc32(Slice(body, 0, LEN_HEADER + length))

\* Bytes a body is ended with.
EndBytes == {0, 1, 27, 85, 170, 255}

\* C15. Damaged-frame policy: a link can be constructed with either policy,
\* strict (the default) or lenient (opted into at construction); when a
\* byte ends a body whose CRC does not match after a valid header, the
\* strict link returns nothing and the lenient link returns one frame marked
\* damaged, and both are back to waiting for the preamble with index 0.
DamagedFramePolicy ==
    /\ ret.kind # "TypeError"
    /\ \A b \in EndBytes :
          (EndsBody(Self, b) /\ ~CrcMatches(endianness, BodyEndedBy(Self, b))) =>
             LET r == _read_byte(Self, b)
             IN /\ r.error = ""
                /\ r.self.state = WAITING_FOR_PREAMBLE
                /\ r.self.index = 0
                /\ IF env.policy = "lenient"
                   THEN /\ r.result # None
                        /\ "damaged" \in DOMAIN r.result[1]
                   ELSE r.result = None

\* What does hold: of a link constructed with the default policy, the same.
DamagedFrameStrict ==
    env.policy = "strict" =>
       /\ ret.kind # "TypeError"
       /\ \A b \in EndBytes :
             (EndsBody(Self, b) /\ ~CrcMatches(endianness, BodyEndedBy(Self, b))) =>
                LET r == _read_byte(Self, b)
                IN /\ r.error = ""
                   /\ r.self.state = WAITING_FOR_PREAMBLE
                   /\ r.self.index = 0
                   /\ r.result = None

\* A strict link stands before the last byte of a body, and the byte that
\* would match the CRC is not the only one it can get.
DamagedFrameStrictWitness ==
    /\ env.policy = "strict"
    /\ \E b \in EndBytes :
          EndsBody(Self, b) /\ ~CrcMatches(endianness, BodyEndedBy(Self, b))
    /\ \E b \in 0..255 :
          EndsBody(Self, b) /\ CrcMatches(endianness, BodyEndedBy(Self, b))

\* The room the buffer has: max_payload_length + 9.
Capacity == max_payload_length + LEN_HEADER + LEN_CRC

\* Bytes tried on every state the reader is in.
ProbeBytes == {0, 27, 85, 170}

\* C16. No decode-time failure: whatever bytes are fed, no call of
\* _read_byte raises; the buffer has max_payload_length + 9 places, each
\* byte is stored at one of the positions 0 .. capacity - 1, and the index
\* never exceeds the capacity, also while a frame of max_payload_length
\* escaped payload bytes is read.
NoDecodeFailure ==
    /\ ret.kind \notin {"IndexError", "TypeError"}
    /\ Len(buffer) = Capacity
    /\ index \in 0..Capacity
    /\ UnescapedIndex(Self) \in 0..(Capacity - 1)
    /\ \A b \in ProbeBytes :
          LET r == _read_byte(Self, b)
          IN r.error = "" /\ r.self.index \in 0..Capacity

\* A frame whose payload is max_payload_length escaped bytes has been read
\* up to the escape marker of its last CRC byte or beyond.
NoDecodeFailureWitness ==
    /\ Len(OkWrites) = 1
    /\ noise.damage = <<>>
    /\ max_payload_length > 0
    /\ Len(WrittenPayload(1)) = max_payload_length
    /\ \A i \in 1..max_payload_length : WrittenPayload(1)[i] \in {FLAG, ESCAPE}
    /\ state = WAITING_FOR_BODY
    /\ index = Capacity

\* C17. Frame construction accepts exactly the 16-bit flags range: Frame(flags,
\* payload) returns a frame with those flags and that payload for every
\* integer flags in 0 .. 65535, and raises, making no frame, for every
\* flags below 0 or above 65535.
FlagsRange ==
    ret.kind # "init" =>
        IF ret.flags \in 0..65535
        THEN /\ ret.kind = "return"
             /\ ret.frame = Some([flags |-> ret.flags, payload |-> ret.payload])
        ELSE /\ ret.kind = "ValueError"
             /\ ret.frame = None

\* The constructor was called with the first value above the range.
FlagsRangeWitness ==
    /\ ret.kind = "ValueError"
    /\ ret.flags = 65536

\* The bytes the i-th write_frame call put on the handle, after the preamble.
WireAfterPreamble(i) ==
    SubSeq(hbuf, (IF i = 1 THEN 0 ELSE written[i - 1].end) + LEN_PREAMBLE + 1,
           written[i].end)

\* C18. Payload capacity: on a link made with max_payload_length = 65536,
\* write_frame of any payload of up to 65536 bytes puts a frame on the wire
\* whose length field is the payload's length, and the frame reads back
\* unchanged.
PayloadCapacity ==
    /\ \A i \in 1..Len(written) :
          Len(WrittenPayload(i)) <= CliLength =>
             /\ written[i].error = ""
             /\ UnpackHeader(endianness, Unescape(WireAfterPreamble(i))).length
                   = Len(WrittenPayload(i))
    /\ \A i \in 1..Len(delivered) :
          /\ delivered[i].frame.flags = OkWrites[i].frame.flags
          /\ PayloadOrBytes(delivered[i].frame.payload)
                = PayloadOrBytes(OkWrites[i].frame.payload)

\* What does hold: payloads of up to 65535 bytes are carried; write_frame of
\* a payload of 65536 bytes raises and puts nothing on the wire.
PayloadCapacityBelow ==
    \A i \in 1..Len(written) :
        IF Len(WrittenPayload(i)) < CliLength
        THEN written[i].error = ""
        ELSE written[i].error = "struct.error"

\* This step feeds one byte of the handle to _read_byte.
FeedsByte == hindex' = hindex + 1
FedByte == hbuf[hindex + 1]

\* C19. Deferred completion on escape: in a header or a body, an escape byte
\* that is not itself escaped is stored, returns nothing and completes
\* nothing; the byte after it is stored as it is over the marker, the index
\* counting one byte for the pair; a stage whose last byte is escaped
\* completes on the byte after the marker, never on the marker.
DeferredCompletion ==
    [][FeedsByte =>
          /\ (InFrame /\ ~unescaping /\ FedByte = ESCAPE) =>
                /\ unescaping'
                /\ state' = state
                /\ index' = index + 1
                /\ buffer' = [buffer EXCEPT ![index + 1] = ESCAPE]
                /\ delivered' = delivered
                /\ pc' = "reading"
          /\ (InFrame /\ unescaping) =>
                /\ ~unescaping'
                /\ buffer' = [buffer EXCEPT ![index] = FedByte]
                /\ state' = state => index' = index
                /\ state' # state => index' = 0 \/ index' = index
          /\ (InFrame /\ state' # state) => (unescaping \/ FedByte # ESCAPE)
      ]_vars

\* The escape marker of the last CRC byte of an undamaged frame has been
\* read: the body has all its bytes but one, which is announced.
DeferredCompletionWitness ==
    /\ noise.damage = <<>>
    /\ state = WAITING_FOR_BODY
    /\ unescaping
    /\ index = UnpackHeader(endianness, buffer).length + LEN_HEADER + LEN_CRC
    /\ delivered = <<>>

\* The header in buf checks out: its fifth byte is the XOR of the four
\* before it and its length is within the link's limit.
HeaderChecks(buf) ==
    /\ buf[5] = BitXor(BitXor(buf[1], buf[2]), BitXor(buf[3], buf[4]))
    /\ UnpackH(endianness, Slice(buf, 2, 4)) <= max_payload_length

\* The bytes the stage has collected once the byte fed is stored, an escape
\* marker and the byte after it counting as one.
LogicalBytes == UnescapedIndex(Self) + 1

\* C20. Transition discipline: a byte feed changes the state only from
\* waiting-for-preamble to header (the last four bytes fed are the preamble;
\* index 0), from header to body (five bytes, a header that checks out;
\* index stays 5), from header to waiting-for-preamble (five bytes, a header
\* that does not check out; index 0) and from body to waiting-for-preamble
\* (length + 4 body bytes; index 0); the last happens whether the CRC
\* matches or not; and a byte that leaves the state as it is does not set
\* the index back to 0.
TransitionDiscipline ==
    [][FeedsByte =>
          LET length == UnpackHeader(endianness, buffer).length
          IN /\ state' # state =>
                   \/ /\ state = WAITING_FOR_PREAMBLE
                      /\ state' = WAITING_FOR_HEADER
                      /\ index' = 0
                      /\ hindex >= 3
                      /\ SubSeq(hbuf, hindex - 2, hindex + 1) = WirePreamble
                   \/ /\ state = WAITING_FOR_HEADER
                      /\ state' = WAITING_FOR_BODY
                      /\ index' = LEN_HEADER
                      /\ LogicalBytes = LEN_HEADER
                      /\ HeaderChecks(buffer')
                   \/ /\ state = WAITING_FOR_HEADER
                      /\ state' = WAITING_FOR_PREAMBLE
                      /\ index' = 0
                      /\ LogicalBytes = LEN_HEADER
                      /\ ~HeaderChecks(buffer')
                   \/ /\ state = WAITING_FOR_BODY
                      /\ state' = WAITING_FOR_PREAMBLE
                      /\ index' = 0
                      /\ LogicalBytes = length + LEN_HEADER + LEN_CRC
             /\ (/\ state = WAITING_FOR_BODY
                 /\ unescaping \/ FedByte # ESCAPE
                 /\ LogicalBytes = length + LEN_HEADER + LEN_CRC) =>
                   (state' = WAITING_FOR_PREAMBLE /\ index' = 0)
             /\ state' = state =>
                   \/ index' \in {index, index + 1}
                   \/ /\ state = WAITING_FOR_PREAMBLE
                      /\ index + 1 = Capacity
                      /\ index' = LEN_PREAMBLE
      ]_vars

\* A frame whose CRC was damaged on the wire, no escape marker made or
\* unmade, has been read to its last byte: nothing was returned and the
\* reader is waiting for the preamble with index 0.
TransitionDisciplineWitness ==
    /\ OneFrameDamagedIn(ChecksumFrameField)
    /\ noise.damage[1].old # ESCAPE
    /\ noise.damage[1].new # ESCAPE
    /\ hindex = Len(hbuf)
    /\ delivered = <<>>
    /\ state = WAITING_FOR_PREAMBLE
    /\ index = 0

\* Where the first preamble on the handle ends: the number of bytes that
\* have been fed when its last byte is (0 if there is none).
FirstPreambleEnd ==
    LET occ == Occurrences(WirePreamble, hbuf)
    IN IF occ = {} THEN 0
       ELSE (CHOOSE i \in occ : \A j \in occ : i <= j) + LEN_PREAMBLE - 1

\* C21. Preamble detection across buffer slides: from the initial state the
\* reader stays waiting for the preamble as long as the last four bytes fed
\* have not been the wire preamble, and is waiting for the header, index 0,
\* right after the first byte at which they are, however many bytes went
\* before and however often the full buffer slid.
PreambleAcrossSlides ==
    /\ (FirstPreambleEnd = 0 \/ hindex < FirstPreambleEnd) =>
           (state = WAITING_FOR_PREAMBLE /\ delivered = <<>>)
    /\ (FirstPreambleEnd # 0 /\ hindex = FirstPreambleEnd) =>
           (state = WAITING_FOR_HEADER /\ index = 0)

\* The first preamble lies across the end of the buffer: its first bytes
\* were fed before the buffer was full, its last bytes after the slide.
PreambleAcrossSlidesWitness ==
    /\ FirstPreambleEnd \in (Capacity + 1)..(Capacity + LEN_PREAMBLE - 1)
    /\ hindex = FirstPreambleEnd
    /\ state = WAITING_FOR_HEADER

\* C22. Escaped data cannot imitate the preamble: whatever the data, the
\* four wire preamble bytes do not occur in _escape(data), in either byte
\* order, and in the preamble followed by _escape(data), which is what a
\* frame is, they occur at the start only.
NoPreambleInEscaped ==
    ret.kind = "return" =>
        /\ Occurrences(WirePreamble, ret.escaped) = {}
        /\ Occurrences(WirePreamble, WirePreamble \o ret.escaped) = {1}

\* _escape was handed data that holds the wire preamble.
NoPreambleInEscapedWitness ==
    /\ ret.kind = "return"
    /\ Occurrences(WirePreamble, ret.data) # {}

\* This step is one iteration of the asynchronous read_frame loop: a byte
\* fed, or an empty read and the return.
AsyncIteration ==
    /\ pc = "reading"
    /\ written' = written
    /\ hlength' = hlength
    /\ ret'.kind # "cancelled"

\* What the blocking read_frame, called on the link as it is, would do with
\* the bytes the handle can deliver, now and after this step.
BlockingCall == ReadLoop(Self, hindex)
BlockingCallAfter ==
    ReadLoop([endianness |-> endianness', max_payload_length |-> max_payload_length',
              state |-> state', buffer |-> buffer', index |-> index',
              unescaping |-> unescaping'], hindex')

\* C23. Blocking and asynchronous links are equivalent: on the same link
\* fields and the same bytes from the source, an iteration at which the
\* asynchronous read_frame returns is one at which the blocking read_frame
\* returns, with the same value, the same bytes consumed and the same
\* fields left; and an iteration after which the asynchronous call goes on
\* leaves the blocking call, taken from there, with the outcome it had.
BlockingAsyncEquivalent ==
    [][AsyncIteration =>
          IF pc' = "idle"
          THEN /\ BlockingCall.hindex = hindex'
               /\ BlockingCall.result = ret'.frame
               /\ (BlockingCall.error = "") = (ret'.kind = "return")
               /\ BlockingCall.self.state = state'
               /\ BlockingCall.self.buffer = buffer'
               /\ BlockingCall.self.index = index'
               /\ BlockingCall.self.unescaping = unescaping'
          ELSE BlockingCall = BlockingCallAfter
      ]_vars

\* An asynchronous read_frame call has returned the first of two frames
\* that were on the wire.
BlockingAsyncEquivalentWitness ==
    /\ pc = "idle"
    /\ ret.kind = "return"
    /\ ret.frame # None
    /\ Len(delivered) = 1
    /\ hindex < hlength

\* C24. Termination of read_frame: every iteration of the loop consumes one
\* byte of the source or meets an empty read; the call returns at once when
\* a byte yields a frame or the read is empty, and goes on otherwise; so
\* every call returns when the source has finitely many bytes.
ReadFrameTerminates ==
    /\ (pc = "reading") ~> (pc = "idle")
    /\ [][(pc = "reading" /\ written' = written /\ hlength' = hlength) =>
             \/ /\ hindex < hlength
                /\ hindex' = hindex + 1
                /\ (pc' = "idle") = (delivered' # delivered)
                /\ pc' = "idle" => ret' = [kind |-> "return",
                                           frame |-> Some(delivered'[Len(delivered')].frame)]
             \/ /\ hindex = hlength
                /\ hindex' = hindex
                /\ pc' = "idle"
                /\ ret' = [kind |-> "return", frame |-> None]
                /\ delivered' = delivered
        ]_vars

\* A call has returned None on an empty read in the middle of a frame.
ReadFrameTerminatesWitness ==
    /\ pc = "idle"
    /\ ret = [kind |-> "return", frame |-> None]
    /\ InFrame
    /\ hindex = hlength
    /\ hindex > 0

\* The successful writes of the frame with flags 10 and no payload on a
\* little-endian link, and the bytes write i put on the wire.
EscapingLastByteWrites ==
    {i \in 1..Len(written) : /\ written[i].frame = Frame(10, None)
                              /\ written[i].error = ""
                              /\ endianness = LITTLE_ENDIAN}
WireOf(i) == SubSeq(hbuf, (IF i = 1 THEN 0 ELSE written[i - 1].end) + 1, written[i].end)

\* The statement as first made: the header checksum of the frame with flags
\* 10 and no payload is the marker and is the one byte escaped, and the
\* encoded frame is 14 bytes long.
HeaderChecksumEscaped ==
    \A i \in EscapingLastByteWrites :
        /\ _checksum_header(10, 0) = FLAG
        /\ SubSeq(WireOf(i), LEN_PREAMBLE + LEN_HEADER, LEN_PREAMBLE + LEN_HEADER + 1)
              = <<ESCAPE, FLAG>>
        /\ Len(WireOf(i)) = LEN_PREAMBLE + LEN_HEADER + LEN_BODY + 1
        /\ Len(WireOf(i)) = 14

\* C25. Scenario flags = 10, no payload, little-endian: the header checksum
\* byte is 10 and goes out as it is; the last byte of the frame checksum is
\* the marker and is the one byte that is escaped, so that the encoding
\* inserts exactly one escape byte, just before the last byte, and the
\* encoded frame is 14 bytes long.
LastCrcByteEscaped ==
    \A i \in EscapingLastByteWrites :
        LET wire == WireOf(i)
            header == PackH(endianness, 10) \o PackH(endianness, 0)
                      \o <<_checksum_header(10, 0)>>
            crc == PackI(endianness, _checksum_frame(header, <<>>))
        IN /\ _checksum_header(10, 0) = 10
           /\ crc[LEN_CRC] = FLAG
           /\ \A k \in 1..LEN_CRC - 1 : crc[k] \notin {FLAG, ESCAPE}
           /\ SubSeq(wire, LEN_PREAMBLE + 1, LEN_PREAMBLE + LEN_HEADER) = header
           /\ SubSeq(wire, LEN_PREAMBLE + LEN_HEADER + 1, Len(wire))
                 = SubSeq(crc, 1, LEN_CRC - 1) \o <<ESCAPE, FLAG>>
           /\ Len(wire) = LEN_PREAMBLE + LEN_HEADER + LEN_BODY + 1
           /\ Len(wire) = 14

\* The frame with flags 10 and no payload has been written on a
\* little-endian link, read back and returned.
LastCrcByteEscapedWitness ==
    /\ EscapingLastByteWrites # {}
    /\ delivered # <<>>
    /\ delivered[1].frame.flags = 10
    /\ written[1].frame = Frame(10, None)
    /\ delivered[1].pos = 14

\* One logical byte reaches the reader: a reserved byte comes behind an
\* escape marker, as _escape sends it, any other byte as it is.
FeedLogical(self, b) ==
    IF b \in {FLAG, ESCAPE}
    THEN _read_byte(_read_byte(self, ESCAPE).self, b)
    ELSE _read_byte(self, b)

\* The reader has four logical bytes of a header and is not unescaping.
BeforeHeaderEnd == state = WAITING_FOR_HEADER /\ index = LEN_HEADER - 1 /\ ~unescaping

\* The reader's fields with logical header byte k (1 .. 4) changed to v.
HeaderByteChanged(k, v) == [Self EXCEPT !.buffer[k] = v]

\* C26. The header checksum detects every single-byte header error: a
\* header is accepted only if its fifth byte is the XOR of the two flags
\* bytes and the two length bytes, and when a header is accepted, the same
\* header with any one of its five logical bytes changed to any other value
\* is rejected: the reader returns nothing and waits for a preamble again,
\* index 0.
HeaderSingleByteError ==
    BeforeHeaderEnd =>
       \A b \in 0..255 :
          FeedLogical(Self, b).self.state = WAITING_FOR_BODY =>
             /\ b = BitXor(BitXor(buffer[1], buffer[2]), BitXor(buffer[3], buffer[4]))
             /\ \A k \in 1..LEN_HEADER, v \in 0..255 :
                   v # (IF k < LEN_HEADER THEN buffer[k] ELSE b) =>
                      LET r == IF k < LEN_HEADER
                               THEN FeedLogical(HeaderByteChanged(k, v), b)
                               ELSE FeedLogical(Self, v)
                      IN /\ r.error = ""
                         /\ r.result = None
                         /\ r.self.state = WAITING_FOR_PREAMBLE
                         /\ r.self.index = 0

\* The reader stands before the last byte of a header with a payload
\* length that the link takes, and one byte makes it accept the header.
HeaderSingleByteErrorWitness ==
    /\ BeforeHeaderEnd
    /\ UnpackH(endianness, Slice(buffer, 2, 4)) \in 1..max_payload_length
    /\ \E b \in 0..255 : FeedLogical(Self, b).self.state = WAITING_FOR_BODY

\* The escape flag is set only in a header or a body, with the escape marker
\* just below the index, of the fields self.
EscapeFlagHolds(self) ==
    /\ self.unescaping =>
          /\ self.state \in {WAITING_FOR_HEADER, WAITING_FOR_BODY}
          /\ self.index >= 1
          /\ self.buffer[self.index] = ESCAPE
    /\ self.state = WAITING_FOR_PREAMBLE => ~self.unescaping

\* C27. Escape-flag invariant: from construction on and after every byte
\* feed, unescaping is set only in a header or a body, and then the index is
\* at least 1 and the byte just below it is the escape byte; while the
\* reader waits for a preamble unescaping is not set, and an escape byte fed
\* then is stored as it is, the index going up by one.
EscapeFlagInvariant ==
    /\ EscapeFlagHolds(Self)
    /\ \A b \in ProbeBytes :
          LET r == _read_byte(Self, b)
          IN /\ EscapeFlagHolds(r.self)
             /\ r.self.unescaping = (InFrame /\ ~unescaping /\ b = ESCAPE)
             /\ (state = WAITING_FOR_PREAMBLE /\ b = ESCAPE) =>
                   r.self.buffer[index + 1] = ESCAPE

\* An escape byte has been fed in the middle of a payload, on a wire of which
\* one byte was replaced by the escape byte.
EscapeFlagInvariantWitness ==
    /\ unescaping
    /\ state = WAITING_FOR_BODY
    /\ index > LEN_HEADER
    /\ noise.damage # <<>>
    /\ noise.damage[1].new = ESCAPE

\* The reader's fields self are those of a body being read: the buffer
\* starts with a header that checks out and the index is within the body.
BodyHolds(self) ==
    LET header == UnpackHeader(self.endianness, self.buffer)
    IN /\ HeaderChecks(self.buffer)
       /\ self.index >= LEN_HEADER
       /\ self.index <= header.length + LEN_HEADER + LEN_CRC

\* C28. Body-state invariant: whenever the reader is in a body, the first
\* five bytes of the buffer are a header that checks out (checksum matching,
\* length at most max_payload_length) and 5 <= index <= length + 9; a byte
\* fed in a body is stored at position 5 or above and leaves the first five
\* bytes as they are, so that the header is the one accepted when the body
\* was entered; a body is entered with index 5.
BodyInvariant ==
    /\ state = WAITING_FOR_BODY => BodyHolds(Self)
    /\ \A b \in ProbeBytes :
          LET r == _read_byte(Self, b)
          IN /\ state = WAITING_FOR_BODY =>
                   /\ UnescapedIndex(Self) >= LEN_HEADER
                   /\ Slice(r.self.buffer, 0, LEN_HEADER) = Slice(buffer, 0, LEN_HEADER)
                   /\ r.self.state = WAITING_FOR_BODY => BodyHolds(r.self)
             /\ (state # WAITING_FOR_BODY /\ r.self.state = WAITING_FOR_BODY) =>
                   /\ state = WAITING_FOR_HEADER
                   /\ r.self.index = LEN_HEADER
                   /\ BodyHolds(r.self)

\* The reader is in a body with the index at its upper limit: the escape
\* marker of the last CRC byte has been stored.
BodyInvariantWitness ==
    /\ state = WAITING_FOR_BODY
    /\ unescaping
    /\ index = UnpackHeader(endianness, buffer).length + LEN_HEADER + LEN_CRC

\* The most bytes the reader with the fields self can still be fed before it
\* waits for a preamble again: two wire bytes for each logical byte that the
\* header (with the longest body behind it) or the body lacks, less the
\* escape marker already taken.
BytesToGo(self) ==
    LET logical == IF self.unescaping THEN self.index - 1 ELSE self.index
        pending == IF self.unescaping THEN 1 ELSE 0
    IN IF self.state = WAITING_FOR_HEADER
       THEN 2 * (LEN_HEADER - logical) - pending
            + 2 * (self.max_payload_length + LEN_CRC)
       ELSE IF self.state = WAITING_FOR_BODY
       THEN 2 * (UnpackHeader(self.endianness, self.buffer).length
                 + LEN_HEADER + LEN_CRC - logical) - pending
       ELSE 0

\* C29. Bounded return to synchronization: when the reader leaves the wait
\* for a preamble it has at most 2 * (max_payload_length + 9) bytes to go;
\* in a header or a body it has at least one byte to go, and every byte
\* fed, whatever it is, either takes it back to the wait for a preamble with
\* index 0 or leaves it with fewer bytes to go; so it is back within
\* 2 * (max_payload_length + 9) fed bytes.
BoundedReturn ==
    /\ InFrame => BytesToGo(Self) \in 1..2 * (max_payload_length + 9)
    /\ \A b \in ProbeBytes :
          LET r == _read_byte(Self, b)
          IN /\ r.error = ""
             /\ (~InFrame /\ r.self.state # WAITING_FOR_PREAMBLE) =>
                   BytesToGo(r.self) = 2 * (max_payload_length + 9)
             /\ InFrame =>
                   \/ r.self.state = WAITING_FOR_PREAMBLE /\ r.self.index = 0
                   \/ /\ r.self.state # WAITING_FOR_PREAMBLE
                      /\ BytesToGo(r.self) < BytesToGo(Self)
                      /\ BytesToGo(r.self) >= 1

\* The reader has been fed more bytes than the buffer holds since the
\* preamble and is still in the body of that frame.
BoundedReturnWitness ==
    /\ state = WAITING_FOR_BODY
    /\ noise.damage = <<>>
    /\ delivered = <<>>
    /\ hindex - LEN_PREAMBLE > Capacity
    /\ BytesToGo(Self) >= 1

\* Where write i's bytes start on the wire, and the reader's fields once it
\* has been fed the first n bytes of the wire.
StartOfWrite(i) == IF i = 1 THEN 0 ELSE written[i - 1].end
ReaderAt(n) ==
    RefLoop([self |-> NewLink(endianness, max_payload_length), frames |-> <<>>], 0, n).self

\* _read_byte for each byte of data in turn: the fields afterwards.
RECURSIVE FeedAll(_, _, _)
FeedAll(self, data, i) ==
    IF i > Len(data) THEN self
    ELSE CHOOSE out \in {FeedAll(r.self, data, i + 1) :
                             r \in {_read_byte(self, data[i])}} : TRUE

\* Write i went out whole behind a write that was cut short in its body: the
\* reader has accepted the header of the cut frame and waits for the rest.
FollowsCutBody(i) ==
    /\ i >= 2
    /\ written[i].error = ""
    /\ written[i - 1].error = "short"
    /\ written[i].end > written[i - 1].end
    /\ ReaderAt(StartOfWrite(i)).state = WAITING_FOR_BODY

\* The frame of write i has been returned.
Delivered(i) == \E j \in 1..Len(delivered) : delivered[j].pos = written[i].end

\* C30. No resynchronization inside a frame: in a header or a body the
\* marker byte and the bytes of the preamble are stored like any other byte
\* (behind an escape marker, over it), set no flag and change the state
\* only by completing the stage; the four bytes of the wire preamble fed to
\* a body with room for them leave the reader in the body with the preamble
\* as content.  So when a frame with a valid header is cut short and a
\* whole frame follows, the first byte of that frame is stored in the body
\* of the cut frame and the frame is not returned; a frame is returned only
\* if the reader waited for a preamble where the frame's preamble starts.
NoResyncInFrame ==
    /\ InFrame =>
          /\ \A b \in ProbeBytes \ {ESCAPE} :
                LET r == _read_byte(Self, b)
                    at == IF unescaping THEN index - 1 ELSE index
                IN /\ r.self.buffer[at + 1] = b
                   /\ ~r.self.unescaping
                   /\ r.self.state = state => r.self.index = at + 1
                   /\ r.self.state # state =>
                         at + 1 = (IF state = WAITING_FOR_HEADER THEN LEN_HEADER
                                   ELSE UnpackHeader(endianness, buffer).length
                                        + LEN_HEADER + LEN_CRC)
          /\ (/\ state = WAITING_FOR_BODY
              /\ ~unescaping
              /\ index + LEN_PREAMBLE
                   < UnpackHeader(endianness, buffer).length + LEN_HEADER + LEN_CRC) =>
                LET self == FeedAll(Self, WirePreamble, 1)
                IN /\ self.state = WAITING_FOR_BODY
                   /\ self.index = index + LEN_PREAMBLE
                   /\ Slice(self.buffer, index, index + LEN_PREAMBLE) = WirePreamble
    /\ hindex = Len(hbuf) =>
          \A i \in 1..Len(written) :
             /\ FollowsCutBody(i) =>
                   LET before == ReaderAt(StartOfWrite(i))
                       after == ReaderAt(StartOfWrite(i) + 1)
                       at == IF before.unescaping THEN before.index - 1
                             ELSE before.index
                   IN /\ Slice(after.buffer, at, at + 1) = <<hbuf[StartOfWrite(i) + 1]>>
                      /\ ~Delivered(i)
             /\ (written[i].error = "" /\ Delivered(i)) =>
                   ReaderAt(StartOfWrite(i)).state = WAITING_FOR_PREAMBLE

\* A frame was cut short in its body, the frame behind it was taken for the
\* rest of that body and lost, and the frame behind that one was returned.
NoResyncInFrameWitness ==
    /\ hindex = Len(hbuf)
    /\ Len(written) = 3
    /\ FollowsCutBody(2)
    /\ ~Delivered(2)
    /\ written[3].error = ""
    /\ Delivered(3)

\* The encoded frame of task t, the handle.write calls that put bytes on the
\* wire, and the bytes on the wire that call c put there.
TaskBytes(t) == Encoded[endianness][max_payload_length][tasks[t].frame].bytes
TakenCalls ==
    {c \in UNION {{[task |-> t, data |-> tasks[t].calls[k].data,
                     end |-> tasks[t].calls[k].end] :
                       k \in {k \in 1..Len(tasks[t].calls) : ~tasks[t].calls[k].raised}} :
                   t \in 1..Len(tasks)} : TRUE}
OnWire(c) == SubSeq(hbuf, c.end - Len(c.data) + 1, c.end)

\* What holds of every task whatever its end: it has made at most one
\* handle.write call, with the whole encoded frame; a task that returned
\* has made exactly one, which the handle took; every call that the handle
\* took put the task's whole frame on the wire in one piece, and the wire is
\* made of these frames and nothing else.
WholeFramesOnly ==
    /\ \A t \in 1..Len(tasks) :
          /\ Len(tasks[t].calls) <= 1
          /\ \A k \in 1..Len(tasks[t].calls) : tasks[t].calls[k].data = TaskBytes(t)
          /\ tasks[t].at = "returned" =>
                Len(tasks[t].calls) = 1 /\ ~tasks[t].calls[1].raised
          /\ tasks[t].at \in {"returned", "suspended"} =>
                Slice(TaskBytes(t), 0, LEN_PREAMBLE) = WirePreamble
    /\ \A c \in TakenCalls : c.end <= Len(hbuf) /\ OnWire(c) = TaskBytes(c.task)
    /\ \A c, d \in TakenCalls : c # d => (c.end <= d.end - Len(d.data) \/ d.end <= c.end - Len(c.data))
    /\ Len(hbuf) = Cardinality(UNION {(c.end - Len(c.data) + 1)..c.end : c \in TakenCalls})

\* The statement as first made: with the above, a write_frame call that
\* raises has made no handle.write call.
OneSinkWriteOrNone ==
    /\ WholeFramesOnly
    /\ \A t \in 1..Len(tasks) : tasks[t].at = "raised" => tasks[t].calls = <<>>

\* C31. One sink write per frame: every write_frame call that returns has
\* handed the whole encoded frame (preamble, escaped header, payload and
\* CRC) to the handle in exactly one write call; a call that raises in the
\* encoding has made no write call; a call that raises because the handle's
\* write raises has made exactly one, with the whole frame, and the frame is
\* on the wire if the handle had taken it; so with a handle whose write
\* takes its bytes in one piece, the frames of write_frame tasks running
\* at the same time never interleave on the wire.
OneSinkWrite ==
    /\ WholeFramesOnly
    /\ \A t \in 1..Len(tasks) :
          tasks[t].at = "raised" =>
             IF tasks[t].error = "OSError"
             THEN /\ Len(tasks[t].calls) = 1
                  /\ ~tasks[t].calls[1].raised =>
                        OnWire([data |-> tasks[t].calls[1].data,
                                end |-> tasks[t].calls[1].end]) = TaskBytes(t)
             ELSE /\ tasks[t].error = "ValueError"
                  /\ tasks[t].calls = <<>>

\* Two tasks were suspended in handle.write at the same time, the one started
\* later having written first: it returned, the drain of the other raised
\* with its frame on the wire, and a third task raised in the encoding.
OneSinkWriteWitness ==
    /\ Len(tasks) >= 3
    /\ tasks[1].at = "raised"
    /\ tasks[1].error = "OSError"
    /\ ~tasks[1].calls[1].raised
    /\ tasks[2].at = "returned"
    /\ tasks[2].calls[1].end < tasks[1].calls[1].end
    /\ tasks[1].calls[1].end - Len(tasks[1].calls[1].data) = tasks[2].calls[1].end
    /\ tasks[3].at = "raised"
    /\ tasks[3].error = "ValueError"

====
